---- MODULE Spec2Model ----
(***************************************************************************)
(* Risk Scoring Engine of Disease-Relater (api/services/risk_calculator.py)*)
(*                                                                         *)
(* Numbers.  Python floats are modelled as exact fixed-point integers:     *)
(*   - prevalences, base risks and risks after the comorbidity stage are   *)
(*     counted in units of 1/CUnit;                                        *)
(*   - the lifestyle multiplier is counted in units of 1/MUnit;            *)
(*   - risks after the lifestyle stage are counted in units of 1/RUnit,    *)
(*     RUnit = CUnit * MUnit, so that risk * multiplier is exact;          *)
(*   - odds ratios are counted in halves;                                  *)
(*   - stored coordinates are counted in units of 1/StoreCoordUnit;        *)
(*   - everything rounded to 4 decimals is counted in units of 1/Unit4.    *)
(* A value that may be null in the store is a sequence of length <= 1:     *)
(* None is <<>>, Some(v) is <<v>>.                                         *)
(* ICD codes are sequences of one-character strings ("E11" is              *)
(* <<"E","1","1">>) so that the leading letter can be taken.               *)
(***************************************************************************)
EXTENDS Integers, Sequences, FiniteSets, TLC

VARIABLES
    store,                  \* the data store: [diseases, relationships]
    request,                \* the RiskCalculationRequest of this invocation
    pc,                     \* position of calculate_risks
    conditions,             \* result of _get_conditions
    names_cache,            \* self._disease_names_cache (sequence of [code, name])
    base_risks,             \* result of _calculate_base_risks_for_all
    risks_with_comorbidity, \* result of _apply_comorbidity_multipliers
    final_risks,            \* adjusted risks of _apply_lifestyle_factors
    contributing_factors,   \* factor lists of _apply_lifestyle_factors
    risk_scores,            \* result of _convert_to_risk_scores
    user_position,          \* result of _calculate_position
    pull_vectors,           \* result of _calculate_pull_vectors
    error,                  \* exception raised by calculate_risks, or "none"
    queries,                \* data-store queries issued so far, in order:
                            \* [name, ok], ok = FALSE when the query raised
    http_response,          \* what the calculate-risk route answered, if it has
    other,                  \* the invocation of a concurrent request that is
                            \* suspended at an await, if there is one
    _instances,             \* ResponseCache._instances: cache name -> instance,
                            \* an index into heap, 0 when the name is absent
    heap,                   \* the ResponseCache objects created so far
    _lock,                  \* ResponseCache._lock: the holder, 0 when free
    callers,                \* the threads that call get_instance, or the calls
                            \* of a function wrapped by cache_response
    clock,                  \* the timer of the TTL caches, in seconds
    settings,               \* what get_settings() returns
    last_set                \* for each cache key, what cache.set stored last and
                            \* when, and whether it was invalidated since

vars == <<store, request, pc, conditions, names_cache, base_risks,
          risks_with_comorbidity, final_risks, contributing_factors,
          risk_scores, user_position, pull_vectors, error, queries,
          http_response, other, _instances, heap, _lock, callers, clock,
          settings, last_set>>

----------------------------------------------------------------------------
(* Units of the fixed-point representation *)

CUnit == 4 * 10000
MUnit == 20 * 1000
RUnit == CUnit * MUnit
Unit4 == 10 * 1000
StoreCoordUnit == 10 * 100
ORUnit == 1 + 1

None == <<>>
Some(v) == <<v>>
IsNone(o) == o = <<>>
\* Python truthiness of an optional number: None and 0 are falsy
Truthy(o) == o # <<>> /\ o[1] # 0

Abs(n) == IF n < 0 THEN 0 - n ELSE n
Min(a, b) == IF a <= b THEN a ELSE b
Max(a, b) == IF a >= b THEN a ELSE b

\* nearest integer to a/b for a >= 0, b > 0, ties to even (Python round())
RoundDivPos(a, b) ==
    LET q == a \div b
        r == a % b
    IN  IF 2 * r < b THEN q
        ELSE IF 2 * r > b THEN q + 1
        ELSE IF q % 2 = 0 THEN q ELSE q + 1

\* nearest integer to a/b for any a and b # 0
RoundDiv(a, b) ==
    LET s == IF (a < 0) = (b < 0) THEN 1 ELSE 0 - 1
    IN  s * RoundDivPos(Abs(a), Abs(b))

\* nearest integer to (a * k) / b, k > 0, without forming a * k
RoundScaled(a, k, b) ==
    LET s == IF (a < 0) = (b < 0) THEN 1 ELSE 0 - 1
        q == Abs(a) \div Abs(b)
        r == Abs(a) % Abs(b)
    IN  s * (q * k + RoundDivPos(r * k, Abs(b)))

\* <<q, r>> with a * b = q * d + r and 0 <= r < d, for a, b >= 0, d > 0,
\* computed by doubling so that no intermediate exceeds 2 * d
RECURSIVE MulDivMod(_, _, _)
MulDivMod(a, b, d) ==
    IF a = 0 THEN <<0, 0>>
    ELSE LET h  == MulDivMod(a \div 2, b, d)
             q1 == 2 * h[1] + (IF 2 * h[2] >= d THEN 1 ELSE 0)
             r1 == IF 2 * h[2] >= d THEN 2 * h[2] - d ELSE 2 * h[2]
             q2 == IF a % 2 = 1 THEN q1 + (b \div d) ELSE q1
             r2 == IF a % 2 = 1 THEN r1 + (b % d) ELSE r1
         IN  IF r2 >= d THEN <<q2 + 1, r2 - d>> ELSE <<q2, r2>>

\* nearest integer to (a * b) / d, ties to even; b >= 0, d > 0
MulRound(a, b, d) ==
    LET m == MulDivMod(Abs(a), b, d)
        n == IF 2 * m[2] < d THEN m[1]
             ELSE IF 2 * m[2] > d THEN m[1] + 1
             ELSE IF m[1] % 2 = 0 THEN m[1] ELSE m[1] + 1
    IN  IF a < 0 THEN 0 - n ELSE n

\* largest n >= 0 with n * n <= s, found between lo and hi
RECURSIVE ISqrtIn(_, _, _)
ISqrtIn(s, lo, hi) ==
    IF lo >= hi THEN lo
    ELSE LET mid == (lo + hi + 1) \div 2
         IN  IF mid * mid <= s THEN ISqrtIn(s, mid, hi) ELSE ISqrtIn(s, lo, mid - 1)

\* nearest integer to sqrt(s), s >= 0
RoundSqrt(s) ==
    LET n == ISqrtIn(s, 0, Min(s, 46340))
    IN  IF s - n * n > n THEN n + 1 ELSE n

\* Natural numbers beyond the machine range, as sequences of limbs in base
\* Base, least significant first; they carry the squares under math.sqrt
Base == 10 * 1000

BigOf(n) == <<n % Base, (n \div Base) % Base, n \div (Base * Base)>>

\* the product: column k holds the sum of a[i] * b[k + 1 - i], and the carry
\* of each column moves into the next
BigMul(a, b) ==
    LET RECURSIVE ColumnSum(_, _)
        ColumnSum(k, i) ==
            IF i > Len(a) THEN 0
            ELSE (IF k + 1 - i \in 1..Len(b) THEN a[i] * b[k + 1 - i] ELSE 0)
                 + ColumnSum(k, i + 1)
        RECURSIVE Normalize(_, _)
        Normalize(k, carry) ==
            IF k > Len(a) + Len(b) - 1
            THEN IF carry = 0 THEN <<>> ELSE <<carry % Base, carry \div Base>>
            ELSE LET t == ColumnSum(k, 1) + carry
                 IN  <<t % Base>> \o Normalize(k + 1, t \div Base)
    IN  Normalize(1, 0)

\* -1, 0, 1 as a < b, a = b, a > b, comparing from the highest limb downwards
BigCmp(a, b) ==
    LET Limb(n, i) == IF i <= Len(n) THEN n[i] ELSE 0
        RECURSIVE CmpFrom(_)
        CmpFrom(i) ==
            IF i = 0 THEN 0
            ELSE IF Limb(a, i) < Limb(b, i) THEN 0 - 1
            ELSE IF Limb(a, i) > Limb(b, i) THEN 1
            ELSE CmpFrom(i - 1)
    IN  CmpFrom(Max(Len(a), Len(b)))

\* n^2 * unit^2 and 4 * r^2 * d, for a unit that is a multiple of Base^2
\* (RUnit = 8 * Base^2): (n * unit / Base^2)^2 moved up four limbs
SquareTimesSquare(n, unit) ==
    <<0, 0, 0, 0>> \o BigMul(BigOf(n * (unit \div (Base * Base))),
                             BigOf(n * (unit \div (Base * Base))))
FourSquareTimes(r, d) == BigMul(BigMul(BigOf(2 * r), BigOf(2 * r)), BigOf(d))

\* is m = round(r * sqrt(d) / unit), ties either way:
\* (2m - 1)^2 unit^2 <= 4 r^2 d <= (2m + 1)^2 unit^2
IsRoundedScaledSqrt(m, r, d, unit) ==
    LET x == FourSquareTimes(r, d)
    IN  /\ m >= 0
        /\ m > 0 => BigCmp(SquareTimesSquare(2 * m - 1, unit), x) <= 0
        /\ BigCmp(x, SquareTimesSquare(2 * m + 1, unit)) <= 0

\* round(r * sqrt(d) / unit) to the nearest integer, ties to even, for
\* r, d >= 0 and a first guess within 2 of the result
RoundScaledSqrt(r, d, unit, guess) ==
    LET x == FourSquareTimes(r, d)
        Inside(m) == /\ (m = 0 \/ BigCmp(SquareTimesSquare(2 * m - 1, unit), x) < 0)
                     /\ BigCmp(x, SquareTimesSquare(2 * m + 1, unit)) < 0
        cands == {m \in (guess - 2)..(guess + 2) : m >= 0}
    IN  IF d = 0 \/ r = 0 THEN 0
        ELSE IF Inside(guess) THEN guess
        ELSE IF \E m \in cands : Inside(m)
        THEN CHOOSE m \in cands : Inside(m)
        ELSE LET t == CHOOSE m \in cands :
                          BigCmp(x, SquareTimesSquare(2 * m + 1, unit)) = 0
             IN  IF t % 2 = 0 THEN t ELSE t + 1

\* round(risk, 4) of a risk counted in 1/RUnit, result in 1/Unit4
Round4Risk(r) == RoundDiv(r, RUnit \div Unit4)

----------------------------------------------------------------------------
(* Class constants of RiskCalculator *)

\* risk level thresholds, in hundredths
RISK_VERY_HIGH == 75
RISK_HIGH == 50
RISK_MODERATE == 25

AGE_ELDERLY == 65
AGE_MIDDLE == 45
AGE_YOUNG == 30

\* BMI thresholds, in tenths of a BMI point (request.bmi is counted in tenths)
BMI_OVERWEIGHT == 250
BMI_OBESE == 300

\* threshold=0.3 passed to _calculate_pull_vectors, in hundredths
PULL_THRESHOLD == 30

\* risk_scores[:50]
TOP_N == 50

\* age multipliers by category and age group, in twentieths
AGE_MULTIPLIERS ==
    [c \in {"metabolic", "cardiovascular", "respiratory", "other"} |->
        CASE c = "metabolic" ->
                [elderly |-> 26, middle |-> 23, young_adult |-> 20, young |-> 16]
          [] c = "cardiovascular" ->
                [elderly |-> 30, middle |-> 25, young_adult |-> 20, young |-> 14]
          [] c = "respiratory" ->
                [elderly |-> 24, middle |-> 22, young_adult |-> 20, young |-> 18]
          [] OTHER ->
                [elderly |-> 23, middle |-> 21, young_adult |-> 20, young |-> 19]]

\* lifestyle multipliers by category, in tenths
LIFESTYLE_MULTIPLIERS ==
    [metabolic |-> [bmi_obese |-> 15, bmi_overweight |-> 12],
     cardiovascular |-> [smoking |-> 18, exercise_low |-> 13, exercise_high |-> 7],
     respiratory |-> [smoking |-> 16]]

\* variant: the first character is looked up as it is
Upper_AsIs(ch) == ch

\* str.upper() on the characters whose upper case selects a category; the
\* character U+0131 (dotless i) is written "U+0131" and its upper case is "I"
Upper(ch) ==
    CASE ch = "e" -> "E"
      [] ch = "i" -> "I"
      [] ch = "j" -> "J"
      [] ch = "U+0131" -> "I"
      [] OTHER -> ch

DISEASE_CATEGORIES(chapter) ==
    CASE chapter = "E" -> "metabolic"
      [] chapter = "I" -> "cardiovascular"
      [] chapter = "J" -> "respiratory"
      [] OTHER -> "other"

_get_disease_category(icd_code) ==
    IF Len(icd_code) < 1 THEN "other"
    ELSE DISEASE_CATEGORIES(Upper(icd_code[1]))

\* variant: the lower bound of a band belongs to the band below
_get_age_group_Exclusive(age) ==
    IF age > AGE_ELDERLY THEN "elderly"
    ELSE IF age > AGE_MIDDLE THEN "middle"
    ELSE IF age > AGE_YOUNG THEN "young_adult"
    ELSE "young"

_get_age_group(age) ==
    IF age >= AGE_ELDERLY THEN "elderly"
    ELSE IF age >= AGE_MIDDLE THEN "middle"
    ELSE IF age >= AGE_YOUNG THEN "young_adult"
    ELSE "young"

\* risk_score is counted in 1/RUnit
_classify_risk_level(risk_score) ==
    IF risk_score >= RISK_VERY_HIGH * (RUnit \div 100) THEN "very_high"
    ELSE IF risk_score >= RISK_HIGH * (RUnit \div 100) THEN "high"
    ELSE IF risk_score >= RISK_MODERATE * (RUnit \div 100) THEN "moderate"
    ELSE "low"

----------------------------------------------------------------------------
(* Ordered dictionaries (Python dict): sequences of [code, val] with       *)
(* distinct codes, in insertion order                                      *)

Keys(d) == {d[i].code : i \in 1..Len(d)}
HasKey(d, k) == \E i \in 1..Len(d) : d[i].code = k
Get(d, k) == d[CHOOSE i \in 1..Len(d) : d[i].code = k].val
\* d[k] = v : overwrite in place, or append a new key
Put(d, k, v) ==
    IF HasKey(d, k)
    THEN [i \in 1..Len(d) |-> IF d[i].code = k THEN [code |-> k, val |-> v] ELSE d[i]]
    ELSE Append(d, [code |-> k, val |-> v])

\* the dict left by "for e in pairs: d[e.code] = e.val" on an empty dict:
\* a key stands where it was first inserted and holds its last value
DictOf(pairs) ==
    LET firsts == SelectSeq([i \in 1..Len(pairs) |-> i],
                      LAMBDA i : \A j \in 1..(i - 1) : pairs[j].code # pairs[i].code)
        LastOf(k) == CHOOSE j \in 1..Len(pairs) :
                         /\ pairs[j].code = k
                         /\ \A m \in (j + 1)..Len(pairs) : pairs[m].code # k
    IN  [n \in 1..Len(firsts) |->
            [code |-> pairs[firsts[n]].code, val |-> pairs[LastOf(pairs[firsts[n]].code)].val]]

\* list.sort(key=..., reverse=True): stable, descending by key.
\* keys[i] is the key of s[i]; RankDesc is the place of s[i] in the sorted list
RankDesc(keys, i) ==
    1 + Cardinality({j \in 1..Len(keys) : keys[j] > keys[i]})
      + Cardinality({j \in 1..(i - 1) : keys[j] = keys[i]})

\* variant: reverse=True is missing, the sort is ascending
SortDesc_Ascending(s, keys) ==
    LET rank == [i \in 1..Len(keys) |-> RankDesc([k \in 1..Len(keys) |-> 0 - keys[k]], i)]
    IN  [n \in 1..Len(s) |-> s[CHOOSE i \in 1..Len(s) : rank[i] = n]]

SortDesc(s, keys) ==
    LET rank == [i \in 1..Len(keys) |-> RankDesc(keys, i)]
    IN  [n \in 1..Len(s) |-> s[CHOOSE i \in 1..Len(s) : rank[i] = n]]

\* s[:n]
Prefix(s, n) == SubSeq(s, 1, Min(n, Len(s)))

Range(s) == {s[i] : i \in 1..Len(s)}

----------------------------------------------------------------------------
(* The data store (Supabase tables "diseases" and "disease_relationships") *)
(* store.diseases: rows [id, icd_code, name_english, prevalence_male,      *)
(*   prevalence_female, prevalence_total, vector_x, vector_y, vector_z];   *)
(*   every field but id and icd_code may be null                           *)
(* store.relationships: rows [disease_1_id, disease_2_id, odds_ratio]      *)

\* table("diseases").select(...).in_("icd_code", codes)
SelectDiseasesIn(st, codes) ==
    SelectSeq(st.diseases, LAMBDA d : d.icd_code \in Range(codes))

\* the embedded resource diseases!disease_k_id(icd_code)
CodeOfId(st, id) ==
    LET d == st.diseases[CHOOSE i \in 1..Len(st.diseases) : st.diseases[i].id = id]
    IN  d.icd_code

\* table("disease_relationships").select(...).or_(disease_1_id.eq.X,disease_2_id.eq.X,...)
SelectRelationshipsTouching(st, ids) ==
    LET hit  == SelectSeq(st.relationships,
                    LAMBDA r : r.disease_1_id \in Range(ids) \/ r.disease_2_id \in Range(ids))
    IN  [i \in 1..Len(hit) |->
            [disease_1_id |-> hit[i].disease_1_id,
             disease_2_id |-> hit[i].disease_2_id,
             odds_ratio   |-> hit[i].odds_ratio,
             disease_1    |-> CodeOfId(st, hit[i].disease_1_id),
             disease_2    |-> CodeOfId(st, hit[i].disease_2_id)]]

----------------------------------------------------------------------------
(* _get_conditions *)

\* rows: the rows the query returned.  Cache disease.get("name_english", code):
\* the key is always selected, so a null name is cached as None
CacheConditionNames(cache, rows) ==
    DictOf(cache \o [i \in 1..Len(rows) |->
                        [code |-> rows[i].icd_code, val |-> rows[i].name_english]])

\* ok = FALSE: the query raised; the except branch logs and returns []
GetConditionsResult(st, icd_codes, ok) ==
    IF ok THEN SelectDiseasesIn(st, icd_codes) ELSE <<>>

----------------------------------------------------------------------------
(* _calculate_base_risks_for_all *)

PrevalenceField(gender) ==
    IF gender = "male" THEN "prevalence_male" ELSE "prevalence_female"

\* variant: no fallback to prevalence_total
BaseRiskOf_NoFallback(d, gender) ==
    IF Truthy(d[PrevalenceField(gender)]) THEN d[PrevalenceField(gender)][1] ELSE 0

\* disease.get(prevalence_field) or disease.get("prevalence_total", 0.0),
\* then float(prevalence) if prevalence else 0.0
BaseRiskOf(d, gender) ==
    LET prevalence == IF Truthy(d[PrevalenceField(gender)])
                      THEN d[PrevalenceField(gender)]
                      ELSE d.prevalence_total
    IN  IF Truthy(prevalence) THEN prevalence[1] ELSE 0

\* disease.get("name_english") or disease_id
NameOrCode(d) ==
    IF d.name_english # None /\ d.name_english[1] # <<>> THEN d.name_english[1] ELSE d.icd_code

BaseRisksFrom(rows, gender) ==
    DictOf([i \in 1..Len(rows) |->
               [code |-> rows[i].icd_code, val |-> BaseRiskOf(rows[i], gender)]])

\* variant: the base-risk pass leaves the name cache as it is
CacheCatalogNames_Skip(cache, rows) == cache

CacheCatalogNames(cache, rows) ==
    DictOf(cache \o [i \in 1..Len(rows) |->
                        [code |-> rows[i].icd_code, val |-> Some(NameOrCode(rows[i]))]])

\* variant: the rows of a failed catalog scan are used all the same
BaseRisksResult_IgnoreFailure(st, gender, ok) == BaseRisksFrom(st.diseases, gender)

\* ok = FALSE: the catalog scan raised; the map stays empty
BaseRisksResult(st, gender, ok) ==
    IF ok THEN BaseRisksFrom(st.diseases, gender) ELSE <<>>

----------------------------------------------------------------------------
(* _apply_comorbidity_multipliers *)

\* the code of the "other" side of a row, or <<>> when neither side is a condition
OtherCode(rel, disease_id_set) ==
    IF rel.disease_1_id \in disease_id_set THEN rel.disease_2
    ELSE IF rel.disease_2_id \in disease_id_set THEN rel.disease_1
    ELSE <<>>

\* variant: the multiplication is missing
ApplyRow_NoMultiply(modified_risks, rel, disease_id_set) == modified_risks

\* one iteration of "for rel in response.data"
ApplyRow(modified_risks, rel, disease_id_set) ==
    LET other_code == OtherCode(rel, disease_id_set)
    IN  IF other_code # <<>> /\ HasKey(modified_risks, other_code)
           /\ Truthy(rel.odds_ratio) /\ rel.odds_ratio[1] > 0
        THEN Put(modified_risks, other_code,
                 (Get(modified_risks, other_code) * rel.odds_ratio[1]) \div ORUnit)
        ELSE modified_risks

RECURSIVE ApplyRows(_, _, _, _)
ApplyRows(modified_risks, rows, disease_id_set, i) ==
    IF i > Len(rows) THEN modified_risks
    ELSE ApplyRows(ApplyRow(modified_risks, rows[i], disease_id_set),
                   rows, disease_id_set, i + 1)

\* idOk / relOk = FALSE: the identifier / relationship query raised
ComorbidityResult(st, risks, existing_conditions, idOk, relOk) ==
    LET disease_response == SelectDiseasesIn(st, existing_conditions)
        disease_ids == [i \in 1..Len(disease_response) |-> disease_response[i].id]
    IN  IF ~idOk \/ disease_response = <<>> \/ ~relOk THEN risks
        ELSE ApplyRows(risks, SelectRelationshipsTouching(st, disease_ids),
                       Range(disease_ids), 1)

----------------------------------------------------------------------------
(* _apply_lifestyle_factors *)

\* multiplier *= f for a lifestyle factor f counted in tenths
TimesTenths(multiplier, f) == (multiplier * f) \div 10
\* multiplier *= age_mult for an age multiplier counted in twentieths
TimesTwentieths(multiplier, f) == (multiplier * f) \div 20

BmiFactor(category, req) ==
    IF category = "metabolic"
    THEN IF req.bmi >= BMI_OBESE
         THEN [mult |-> LIFESTYLE_MULTIPLIERS.metabolic.bmi_obese,
               factors |-> <<"High BMI (obese) - metabolic impact">>]
         ELSE IF req.bmi >= BMI_OVERWEIGHT
         THEN [mult |-> LIFESTYLE_MULTIPLIERS.metabolic.bmi_overweight,
               factors |-> <<"Elevated BMI (overweight) - metabolic impact">>]
         ELSE [mult |-> 10, factors |-> <<>>]
    ELSE [mult |-> 10, factors |-> <<>>]

\* variant: the smoking multiplier is not restricted to a category
SmokingFactor_AnyCategory(category, req) ==
    IF req.smoking
    THEN [mult |-> LIFESTYLE_MULTIPLIERS.cardiovascular.smoking,
          factors |-> <<"Smoking - cardiovascular impact">>]
    ELSE [mult |-> 10, factors |-> <<>>]

SmokingFactor(category, req) ==
    IF req.smoking
    THEN IF category = "cardiovascular"
         THEN [mult |-> LIFESTYLE_MULTIPLIERS.cardiovascular.smoking,
               factors |-> <<"Smoking - cardiovascular impact">>]
         ELSE IF category = "respiratory"
         THEN [mult |-> LIFESTYLE_MULTIPLIERS.respiratory.smoking,
               factors |-> <<"Smoking - respiratory impact">>]
         ELSE [mult |-> 10, factors |-> <<>>]
    ELSE [mult |-> 10, factors |-> <<>>]

ExerciseFactor(category, req) ==
    IF category = "cardiovascular"
    THEN IF req.exercise_level \in {"sedentary", "light"}
         THEN [mult |-> LIFESTYLE_MULTIPLIERS.cardiovascular.exercise_low,
               factors |-> <<"Low exercise level - cardiovascular impact">>]
         ELSE IF req.exercise_level = "active"
         THEN [mult |-> LIFESTYLE_MULTIPLIERS.cardiovascular.exercise_high,
               factors |-> <<"Active lifestyle - cardiovascular protective">>]
         ELSE [mult |-> 10, factors |-> <<>>]
    ELSE [mult |-> 10, factors |-> <<>>]

AgeFactor(category, req) ==
    LET age_mult == AGE_MULTIPLIERS[category][_get_age_group(req.age)]
    IN  IF age_mult # 20
        THEN [mult |-> age_mult,
              factors |-> IF age_mult > 20
                          THEN <<"Age (" \o ToString(req.age) \o ") - increased "
                                  \o category \o " risk">>
                          ELSE <<"Age (" \o ToString(req.age) \o ") - lower "
                                  \o category \o " risk">>]
        ELSE [mult |-> 20, factors |-> <<>>]

\* the multiplier of one disease, in 1/MUnit (1.0 is MUnit)
Multiplier(disease_id, req) ==
    LET category == _get_disease_category(disease_id)
    IN  TimesTwentieths(
            TimesTenths(
                TimesTenths(
                    TimesTenths(MUnit, BmiFactor(category, req).mult),
                    SmokingFactor(category, req).mult),
                ExerciseFactor(category, req).mult),
            AgeFactor(category, req).mult)

Factors(disease_id, req) ==
    LET category == _get_disease_category(disease_id)
    IN  BmiFactor(category, req).factors \o SmokingFactor(category, req).factors
        \o ExerciseFactor(category, req).factors \o AgeFactor(category, req).factors

\* min(1.0, base_risk * multiplier): base_risk in 1/CUnit, multiplier in
\* 1/MUnit, result in 1/RUnit; the product is formed only when it is below 1.0
AdjustedRisk(base_risk, multiplier) ==
    IF base_risk >= (RUnit + multiplier - 1) \div multiplier
    THEN RUnit
    ELSE base_risk * multiplier

LifestyleRisks(risks, req) ==
    [i \in 1..Len(risks) |->
        [code |-> risks[i].code,
         val  |-> AdjustedRisk(risks[i].val, Multiplier(risks[i].code, req))]]

LifestyleFactors(risks, req) ==
    [i \in 1..Len(risks) |->
        [code |-> risks[i].code, val |-> Factors(risks[i].code, req)]]

----------------------------------------------------------------------------
(* _get_disease_names *)

\* variant: every requested code is fetched, cached or not
CodesToFetch_All(cache, icd_codes) == icd_codes

CodesToFetch(cache, icd_codes) ==
    SelectSeq(icd_codes, LAMBDA c : ~HasKey(cache, c))

CacheFetchedNames(cache, rows) ==
    DictOf(cache \o [i \in 1..Len(rows) |->
                        [code |-> rows[i].icd_code, val |-> Some(NameOrCode(rows[i]))]])

\* the cache after the call; ok = FALSE: the name query raised
NamesCacheAfter(st, cache, icd_codes, ok) ==
    IF CodesToFetch(cache, icd_codes) # <<>> /\ ok
    THEN CacheFetchedNames(cache, SelectDiseasesIn(st, CodesToFetch(cache, icd_codes)))
    ELSE cache

\* result[code]: the cached value, else the fetched name, else the code
DiseaseName(st, cache, icd_codes, ok, code) ==
    LET after == NamesCacheAfter(st, cache, icd_codes, ok)
    IN  IF HasKey(after, code) THEN Get(after, code) ELSE Some(code)

----------------------------------------------------------------------------
(* _convert_to_risk_scores *)

\* variant: the "risk > 0" test is missing
FilteredCodes_NoPositiveTest(risks, existing_conditions) ==
    LET kept == SelectSeq(risks, LAMBDA e : e.code \notin Range(existing_conditions))
    IN  [i \in 1..Len(kept) |-> kept[i].code]

\* variant: the "code not in existing_set" test is missing
FilteredCodes_KeepExisting(risks, existing_conditions) ==
    LET kept == SelectSeq(risks, LAMBDA e : e.val > 0)
    IN  [i \in 1..Len(kept) |-> kept[i].code]

FilteredCodes(risks, existing_conditions) ==
    LET kept == SelectSeq(risks,
                    LAMBDA e : e.val > 0 /\ e.code \notin Range(existing_conditions))
    IN  [i \in 1..Len(kept) |-> kept[i].code]

\* variant: no baseline label stands in for an empty factor list
RiskScoreOf_NoBaseline(st, cache, risks, factors, filtered_codes, ok, disease_id) ==
    LET risk == Get(risks, disease_id)
    IN  [disease_id   |-> disease_id,
         disease_name |-> DiseaseName(st, cache, filtered_codes, ok, disease_id),
         risk         |-> Round4Risk(risk),
         level        |-> _classify_risk_level(risk),
         contributing_factors |->
             IF HasKey(factors, disease_id) THEN Get(factors, disease_id) ELSE <<>>]

RiskScoreOf(st, cache, risks, factors, filtered_codes, ok, disease_id) ==
    LET risk == Get(risks, disease_id)
        recorded == IF HasKey(factors, disease_id) THEN Get(factors, disease_id) ELSE <<>>
    IN  [disease_id   |-> disease_id,
         disease_name |-> DiseaseName(st, cache, filtered_codes, ok, disease_id),
         risk         |-> Round4Risk(risk),
         level        |-> _classify_risk_level(risk),
         contributing_factors |->
             IF recorded # <<>> THEN recorded ELSE <<"Population prevalence baseline">>]

\* variant: the list is cut to 50 entries before it is sorted
ConvertToRiskScores_CutBeforeSort(st, cache, risks, factors, existing_conditions, ok) ==
    LET filtered_codes == FilteredCodes(risks, existing_conditions)
        scores == [i \in 1..Len(filtered_codes) |->
                      RiskScoreOf(st, cache, risks, factors, filtered_codes, ok,
                                  filtered_codes[i])]
        cut == Prefix(scores, TOP_N)
    IN  SortDesc(cut, [i \in 1..Len(cut) |-> cut[i].risk])

ConvertToRiskScores(st, cache, risks, factors, existing_conditions, ok) ==
    LET filtered_codes == FilteredCodes(risks, existing_conditions)
        scores == [i \in 1..Len(filtered_codes) |->
                      RiskScoreOf(st, cache, risks, factors, filtered_codes, ok,
                                  filtered_codes[i])]
    IN  Prefix(SortDesc(scores, [i \in 1..Len(scores) |-> scores[i].risk]), TOP_N)

----------------------------------------------------------------------------
(* _calculate_position *)

\* max(-1.0, min(1.0, v)) for v counted in 1/unit
Clamp(v, unit) == Max(0 - unit, Min(unit, v))

\* variant: every condition weighs 1.0
WeightOf_Unweighted(condition) == CUnit

\* weight = raw_weight if raw_weight else 1.0, in 1/CUnit
WeightOf(condition) ==
    IF Truthy(condition.prevalence_total) THEN condition.prevalence_total[1] ELSE CUnit

\* missing coordinate -> 0.0, then clamped to [-1, 1]; in 1/StoreCoordUnit
CoordOf(raw) == Clamp(IF raw # None THEN raw[1] ELSE 0, StoreCoordUnit)

RECURSIVE WeightedSum(_, _, _)
WeightedSum(conds, axis, i) ==
    IF i > Len(conds) THEN 0
    ELSE CoordOf(conds[i][axis]) * WeightOf(conds[i]) + WeightedSum(conds, axis, i + 1)

RECURSIVE TotalWeight(_, _)
TotalWeight(conds, i) ==
    IF i > Len(conds) THEN 0
    ELSE WeightOf(conds[i]) + TotalWeight(conds, i + 1)

\* variant: the quotient is rounded but not clamped
PositionAxis_NoClamp(conds, axis) ==
    RoundScaled(WeightedSum(conds, axis, 1), Unit4 \div StoreCoordUnit,
                TotalWeight(conds, 1))

\* max(-1.0, min(1.0, round(weighted / total_weight, 4))), in 1/Unit4
PositionAxis(conds, axis) ==
    Clamp(RoundScaled(WeightedSum(conds, axis, 1), Unit4 \div StoreCoordUnit,
                      TotalWeight(conds, 1)),
          Unit4)

CalculatePosition(conds) ==
    IF conds = <<>> THEN [x |-> 0, y |-> 0, z |-> 0]
    ELSE IF TotalWeight(conds, 1) = 0 THEN [x |-> 0, y |-> 0, z |-> 0]
    ELSE [x |-> PositionAxis(conds, "vector_x"),
          y |-> PositionAxis(conds, "vector_y"),
          z |-> PositionAxis(conds, "vector_z")]

----------------------------------------------------------------------------
(* _get_disease_coordinates and _calculate_pull_vectors *)

\* disease.get("vector_k") or 0.0, converted to 1/Unit4
CoordOrZero(raw) == IF Truthy(raw) THEN raw[1] * (Unit4 \div StoreCoordUnit) ELSE 0

\* variant: only the first row of the response is taken
DiseaseCoordinates_FirstRowOnly(st, icd_codes, ok) ==
    LET rows == IF icd_codes # <<>> /\ ok THEN SelectDiseasesIn(st, icd_codes) ELSE <<>>
    IN  [i \in 1..Min(1, Len(rows)) |->
            [code |-> rows[i].icd_code,
             val  |-> [x |-> CoordOrZero(rows[i].vector_x),
                       y |-> CoordOrZero(rows[i].vector_y),
                       z |-> CoordOrZero(rows[i].vector_z),
                       name |-> NameOrCode(rows[i])]]]

\* ok = FALSE: the coordinate query raised; the map stays empty
DiseaseCoordinates(st, icd_codes, ok) ==
    LET rows == IF icd_codes # <<>> /\ ok THEN SelectDiseasesIn(st, icd_codes) ELSE <<>>
    IN  [i \in 1..Len(rows) |->
            [code |-> rows[i].icd_code,
             val  |-> [x |-> CoordOrZero(rows[i].vector_x),
                       y |-> CoordOrZero(rows[i].vector_y),
                       z |-> CoordOrZero(rows[i].vector_z),
                       name |-> NameOrCode(rows[i])]]]

\* variant: "risk >= threshold" instead of "risk > threshold"
HighRiskCodes_Inclusive(risks, threshold) ==
    LET high == SelectSeq(risks, LAMBDA e : e.val >= threshold * (RUnit \div 100))
    IN  [i \in 1..Len(high) |-> high[i].code]

HighRiskCodes(risks, threshold) ==
    LET high == SelectSeq(risks, LAMBDA e : e.val > threshold * (RUnit \div 100))
    IN  [i \in 1..Len(high) |-> high[i].code]

\* variant: the difference is not scaled by the risk
PullVectorOf_Unscaled(code, risk, coords, position) ==
    LET dx == coords.x - position.x
        dy == coords.y - position.y
        dz == coords.z - position.z
    IN  [disease_id   |-> code,
         disease_name |-> coords.name,
         risk         |-> Round4Risk(risk),
         vector_x     |-> dx,
         vector_y     |-> dy,
         vector_z     |-> dz,
         magnitude    |-> RoundSqrt(dx * dx + dy * dy + dz * dz)]

\* coords and position in 1/Unit4, risk in 1/RUnit.  The reported components
\* are round(d * risk, 4); the magnitude is round(sqrt(vx^2 + vy^2 + vz^2), 4)
\* of the unrounded components, that is round(risk * sqrt(dx^2 + dy^2 + dz^2), 4)
PullVectorOf(code, risk, coords, position) ==
    LET dx == coords.x - position.x
        dy == coords.y - position.y
        dz == coords.z - position.z
        vector_x == MulRound(dx, risk, RUnit)
        vector_y == MulRound(dy, risk, RUnit)
        vector_z == MulRound(dz, risk, RUnit)
        guess == RoundSqrt(vector_x * vector_x + vector_y * vector_y
                           + vector_z * vector_z)
    IN  [disease_id   |-> code,
         disease_name |-> coords.name,
         risk         |-> Round4Risk(risk),
         vector_x     |-> vector_x,
         vector_y     |-> vector_y,
         vector_z     |-> vector_z,
         magnitude    |-> RoundScaledSqrt(risk, dx * dx + dy * dy + dz * dz,
                                          RUnit, guess)]

CalculatePullVectors(st, risks, position, threshold, ok) ==
    LET high_risk_codes == HighRiskCodes(risks, threshold)
        disease_coords == DiseaseCoordinates(st, high_risk_codes, ok)
        found == SelectSeq(high_risk_codes, LAMBDA c : HasKey(disease_coords, c))
        pvs == [i \in 1..Len(found) |->
                   PullVectorOf(found[i], Get(risks, found[i]),
                                Get(disease_coords, found[i]), position)]
    IN  SortDesc(pvs, [i \in 1..Len(pvs) |-> pvs[i].magnitude])

----------------------------------------------------------------------------
(* Inputs: store contents and requests *)

\* longest relationship table, longest existing_conditions list
MaxRows == 2
MaxConds == 2

E11 == <<"E", "1", "1">>
I10 == <<"I", "1", "0">>
J45 == <<"J", "4", "5">>
N18 == <<"N", "1", "8">>
Z99 == <<"Z", "9", "9">>

\* the diseases table lists these codes in this order; ids are 1..4
CatalogCodes == <<E11, I10, J45, N18>>

CatalogNames ==
    <<Some(<<"d", "i", "a", "b">>), Some(<<"h", "y", "p">>), Some(<<>>), None>>

\* prevalence_male, prevalence_female, prevalence_total of each catalog row,
\* in 1/CUnit: 2000 is 0.05, 32000 is 0.8, 15384 is 0.3846, 29999 is 0.749975,
\* 12001 is 0.300025, 12000 is 0.3, 48000 is 1.2, 1 is 0.000025
PrevalenceTables ==
    { << <<Some(1680), Some(1600), Some(1680)>>,
         <<Some(2000), Some(32000), Some(7280)>>,
         <<None, Some(0), Some(12001)>>,
         <<Some(29999), None, Some(0)>> >>,
      << <<Some(15384), None, Some(-800)>>,
         <<Some(-400), Some(48000), None>>,
         <<Some(1), Some(12000), Some(1)>>,
         <<None, Some(12001), None>> >> }

\* vector_x, vector_y, vector_z of each catalog row, in 1/StoreCoordUnit
CoordinateTables ==
    { << <<Some(500), Some(-300), Some(800)>>,
         <<Some(-200), Some(400), Some(-100)>>,
         <<None, Some(1500), Some(-1500)>>,
         <<Some(100), Some(100), Some(100)>> >> }

DiseaseRows(prev, coord) ==
    [i \in 1..Len(CatalogCodes) |->
        [id |-> i, icd_code |-> CatalogCodes[i], name_english |-> CatalogNames[i],
         prevalence_male |-> prev[i][1], prevalence_female |-> prev[i][2],
         prevalence_total |-> prev[i][3],
         vector_x |-> coord[i][1], vector_y |-> coord[i][2], vector_z |-> coord[i][3]]]

\* disease_relationships rows; odds ratios in halves: 7 is 3.5, 4 is 2.0,
\* -2 is -1.0
RelationshipRows ==
    << [disease_1_id |-> 1, disease_2_id |-> 2, odds_ratio |-> Some(7)],
       [disease_1_id |-> 4, disease_2_id |-> 1, odds_ratio |-> Some(4)],
       [disease_1_id |-> 2, disease_2_id |-> 1, odds_ratio |-> Some(-2)] >>

SeqsUpTo(S, n) == UNION {[1..k -> S] : k \in 0..n}

\* the elements of s at the positions I, in the order of s
Pick(s, I) ==
    [k \in 1..Cardinality(I) |->
        s[CHOOSE i \in I : Cardinality({j \in I : j < i}) = k - 1]]

\* the relationship table holds at most MaxRows of the rows, in table order
RelationshipTables ==
    { Pick(RelationshipRows, I) :
        I \in {J \in SUBSET (1..Len(RelationshipRows)) : Cardinality(J) <= MaxRows} }

Stores ==
    { [diseases |-> DiseaseRows(prev, coord), relationships |-> rels] :
        prev \in PrevalenceTables, coord \in CoordinateTables, rels \in RelationshipTables }

ExistingCodes == <<E11, I10, Z99>>

\* existing_conditions: one to MaxConds codes, repeats allowed; the lookups take
\* the list as a set of codes (".in_"), so each list is given in one order
ExistingLists ==
    { [k \in 1..Len(t) |-> ExistingCodes[t[k]]] :
        t \in {u \in SeqsUpTo(1..Len(ExistingCodes), MaxConds) :
                  /\ u # <<>>
                  /\ \A k \in 1..(Len(u) - 1) : u[k] <= u[k + 1]} }

\* RiskCalculationRequest after validation: bmi in tenths
Requests ==
    [age : {25, 40, 70},
     gender : {"male", "female"},
     bmi : {220, 320},
     existing_conditions : ExistingLists,
     exercise_level : {"sedentary", "moderate"},
     smoking : BOOLEAN]

NoPosition == [x |-> 0, y |-> 0, z |-> 0]

\* no concurrent request
NoInvocation == <<>>

\* the response caches of api/services/cache.py are not in use; the settings
\* are those of api/config.py, which has no cache option
NoCaches ==
    /\ _instances = <<>>
    /\ heap = <<>>
    /\ _lock = 0
    /\ callers = <<>>
    /\ clock = 0
    /\ settings = [app_name |-> "Disease-Relater API"]
    /\ last_set = <<>>

\* the route has not answered
NoResponse == [status_code |-> 0, detail |-> "", body |-> None]

----------------------------------------------------------------------------
(* calculate_risks: one invocation on a fresh RiskCalculator *)

Init ==
    /\ store \in Stores
    /\ request \in Requests
    /\ pc = "get_conditions"
    /\ conditions = <<>>
    /\ names_cache = <<>>
    /\ base_risks = <<>>
    /\ risks_with_comorbidity = <<>>
    /\ final_risks = <<>>
    /\ contributing_factors = <<>>
    /\ risk_scores = <<>>
    /\ user_position = NoPosition
    /\ pull_vectors = <<>>
    /\ error = "none"
    /\ queries = <<>>
    /\ http_response = NoResponse
    /\ other = NoInvocation
    /\ NoCaches

Query(name, ok) == [name |-> name, ok |-> ok]

\* variant: the empty-conditions test is missing
NoValidConditions_Never(conds) == FALSE

\* "if not conditions: raise ValueError(...)"
NoValidConditions(conds) == conds = <<>>

\* Step 1: conditions = await self._get_conditions(...); raise if empty
GetConditions ==
    /\ pc = "get_conditions"
    /\ \E ok \in BOOLEAN :
         LET rows == GetConditionsResult(store, request.existing_conditions, ok)
         IN  /\ conditions' = rows
             /\ names_cache' = CacheConditionNames(names_cache, rows)
             /\ queries' = Append(queries, Query("conditions", ok))
             /\ IF NoValidConditions(rows)
                THEN pc' = "raised"
                     /\ error' = "ValueError: No valid conditions found for provided ICD codes"
                ELSE pc' = "base_risks" /\ error' = error
    /\ UNCHANGED <<_instances, heap, _lock, callers, clock, settings, last_set,
                   other, http_response, store, request, base_risks, risks_with_comorbidity, final_risks,
                   contributing_factors, risk_scores, user_position, pull_vectors>>

\* variant: the catalog fetch is not wrapped in try/except, so its failure
\* leaves calculate_risks as an exception
CalculateBaseRisks_Uncaught ==
    /\ pc = "base_risks"
    /\ \E ok \in BOOLEAN :
         /\ base_risks' = BaseRisksResult(store, request.gender, ok)
         /\ names_cache' = IF ok THEN CacheCatalogNames(names_cache, store.diseases)
                           ELSE names_cache
         /\ queries' = Append(queries, Query("catalog", ok))
         /\ IF ok THEN pc' = "comorbidity" /\ error' = error
                  ELSE pc' = "raised" /\ error' = "Exception: catalog fetch failed"
    /\ UNCHANGED <<_instances, heap, _lock, callers, clock, settings, last_set,
                   other, http_response, store, request, conditions, risks_with_comorbidity, final_risks,
                   contributing_factors, risk_scores, user_position, pull_vectors>>

\* Step 2: base_risks = await self._calculate_base_risks_for_all(request)
CalculateBaseRisks ==
    /\ pc = "base_risks"
    /\ \E ok \in BOOLEAN :
         /\ base_risks' = BaseRisksResult(store, request.gender, ok)
         /\ names_cache' = IF ok THEN CacheCatalogNames(names_cache, store.diseases)
                           ELSE names_cache
         /\ queries' = Append(queries, Query("catalog", ok))
    /\ pc' = "comorbidity"
    /\ UNCHANGED <<_instances, heap, _lock, callers, clock, settings, last_set,
                   other, http_response, store, request, conditions, risks_with_comorbidity, final_risks,
                   contributing_factors, risk_scores, user_position, pull_vectors, error>>

\* Step 3: risks_with_comorbidity = await self._apply_comorbidity_multipliers(...)
ApplyComorbidityMultipliers ==
    /\ pc = "comorbidity"
    /\ \E idOk \in BOOLEAN, relOk \in BOOLEAN :
         /\ risks_with_comorbidity' =
                ComorbidityResult(store, base_risks, request.existing_conditions, idOk, relOk)
         /\ queries' =
                IF idOk /\ SelectDiseasesIn(store, request.existing_conditions) # <<>>
                THEN queries \o <<Query("identifiers", TRUE), Query("relationships", relOk)>>
                ELSE Append(queries, Query("identifiers", idOk))
    /\ pc' = "lifestyle"
    /\ UNCHANGED <<_instances, heap, _lock, callers, clock, settings, last_set,
                   other, http_response, store, request, conditions, names_cache, base_risks, final_risks,
                   contributing_factors, risk_scores, user_position, pull_vectors, error>>

\* variant: the position is computed right after the lifestyle stage
ApplyLifestyleFactors_ThenPosition ==
    /\ pc = "lifestyle"
    /\ final_risks' = LifestyleRisks(risks_with_comorbidity, request)
    /\ contributing_factors' = LifestyleFactors(risks_with_comorbidity, request)
    /\ pc' = "position"
    /\ UNCHANGED <<_instances, heap, _lock, callers, clock, settings, last_set,
                   other, http_response, store, request, conditions, names_cache, base_risks,
                   risks_with_comorbidity, risk_scores, user_position, pull_vectors,
                   error, queries>>

\* Step 4: final_risks, contributing_factors = await self._apply_lifestyle_factors(...)
ApplyLifestyleFactors ==
    /\ pc = "lifestyle"
    /\ final_risks' = LifestyleRisks(risks_with_comorbidity, request)
    /\ contributing_factors' = LifestyleFactors(risks_with_comorbidity, request)
    /\ pc' = "convert"
    /\ UNCHANGED <<_instances, heap, _lock, callers, clock, settings, last_set,
                   other, http_response, store, request, conditions, names_cache, base_risks,
                   risks_with_comorbidity, risk_scores, user_position, pull_vectors,
                   error, queries>>

\* Step 5: risk_scores = await self._convert_to_risk_scores(...)
ConvertToRiskScoresStep ==
    /\ pc = "convert"
    /\ \E ok \in BOOLEAN :
         LET filtered_codes == FilteredCodes(final_risks, request.existing_conditions)
         IN  /\ risk_scores' = ConvertToRiskScores(store, names_cache, final_risks,
                                   contributing_factors, request.existing_conditions, ok)
             /\ names_cache' = NamesCacheAfter(store, names_cache, filtered_codes, ok)
             /\ queries' = IF CodesToFetch(names_cache, filtered_codes) # <<>>
                           THEN Append(queries, Query("names", ok)) ELSE queries
    /\ pc' = "position"
    /\ UNCHANGED <<_instances, heap, _lock, callers, clock, settings, last_set,
                   other, http_response, store, request, conditions, base_risks, risks_with_comorbidity,
                   final_risks, contributing_factors, user_position, pull_vectors, error>>

\* Step 6: user_position = self._calculate_position(conditions)
CalculatePositionStep ==
    /\ pc = "position"
    /\ user_position' = CalculatePosition(conditions)
    /\ pc' = "pull_vectors"
    /\ UNCHANGED <<_instances, heap, _lock, callers, clock, settings, last_set,
                   other, http_response, store, request, conditions, names_cache, base_risks,
                   risks_with_comorbidity, final_risks, contributing_factors,
                   risk_scores, pull_vectors, error, queries>>

\* Step 7: pull_vectors = await self._calculate_pull_vectors(...); return the response
CalculatePullVectorsStep ==
    /\ pc = "pull_vectors"
    /\ \E ok \in BOOLEAN :
         /\ pull_vectors' = CalculatePullVectors(store, final_risks, user_position,
                                                 PULL_THRESHOLD, ok)
         /\ queries' = IF HighRiskCodes(final_risks, PULL_THRESHOLD) # <<>>
                       THEN Append(queries, Query("coordinates", ok)) ELSE queries
    /\ pc' = "done"
    /\ UNCHANGED <<_instances, heap, _lock, callers, clock, settings, last_set,
                   other, http_response, store, request, conditions, names_cache, base_risks,
                   risks_with_comorbidity, final_risks, contributing_factors,
                   risk_scores, user_position, error>>

Next ==
    \/ GetConditions
    \/ CalculateBaseRisks
    \/ ApplyComorbidityMultipliers
    \/ ApplyLifestyleFactors
    \/ ConvertToRiskScoresStep
    \/ CalculatePositionStep
    \/ CalculatePullVectorsStep

Spec == Init /\ [][Next]_vars

----------------------------------------------------------------------------
(* calculate_risks on a catalog of more than 50 diseases *)

\* number of diseases of the large catalog
BigCatalogSize == 52

BigCode(i) ==
    <<(<<"I", "E", "J", "N">>)[(i % 4) + 1], ToString(i \div 10), ToString(i % 10)>>

\* prevalences 0.02 .. 0.74 spread over the catalog by the seed <<a, b>>
BigPrevalence(i, seed) == (((i * seed[1] + seed[2]) % 37) + 1) * 800

BigDiseaseRows(seed) ==
    [i \in 1..BigCatalogSize |->
        [id |-> i, icd_code |-> BigCode(i), name_english |-> None,
         prevalence_male |-> Some(BigPrevalence(i, seed)),
         prevalence_female |-> None,
         prevalence_total |-> Some(BigPrevalence(i, seed)),
         vector_x |-> Some((((i * 7) % 21) - 10) * 100),
         vector_y |-> Some((((i * 5) % 21) - 10) * 100),
         vector_z |-> None]]

BigStores ==
    { [diseases |-> BigDiseaseRows(seed), relationships |-> rels] :
        seed \in {3, 7} \X {0, 11},
        rels \in { <<>>,
                   <<[disease_1_id |-> 1, disease_2_id |-> 2, odds_ratio |-> Some(7)],
                     [disease_1_id |-> 3, disease_2_id |-> 1, odds_ratio |-> Some(4)]>> } }

BigRequests ==
    [age : {40, 70},
     gender : {"male"},
     bmi : {220},
     existing_conditions : {<<BigCode(1)>>, <<BigCode(1), BigCode(2)>>},
     exercise_level : {"moderate"},
     smoking : BOOLEAN]

InitTop ==
    /\ store \in BigStores
    /\ request \in BigRequests
    /\ pc = "get_conditions"
    /\ conditions = <<>>
    /\ names_cache = <<>>
    /\ base_risks = <<>>
    /\ risks_with_comorbidity = <<>>
    /\ final_risks = <<>>
    /\ contributing_factors = <<>>
    /\ risk_scores = <<>>
    /\ user_position = NoPosition
    /\ pull_vectors = <<>>
    /\ error = "none"
    /\ queries = <<>>
    /\ http_response = NoResponse
    /\ other = NoInvocation
    /\ NoCaches

SpecTop == InitTop /\ [][Next]_vars

----------------------------------------------------------------------------
(* _calculate_position on arbitrary condition records *)

PositionWeights == {None, Some(0), Some(400), Some(200), Some(-200)}

PositionCoordinates ==
    { <<Some(2000), Some(-2000), None>>,
      <<Some(-1000), Some(500), Some(1000)>>,
      <<Some(300), None, Some(-3000)>> }

PositionConditions ==
    { [id |-> 1, icd_code |-> E11, name_english |-> None,
       prevalence_male |-> None, prevalence_female |-> None, prevalence_total |-> w,
       vector_x |-> c[1], vector_y |-> c[2], vector_z |-> c[3]] :
        w \in PositionWeights, c \in PositionCoordinates }

NoStore == [diseases |-> <<>>, relationships |-> <<>>]

InitPos ==
    /\ store = NoStore
    /\ request \in {r \in Requests : r.age = 40 /\ r.gender = "male" /\ r.bmi = 220
                                     /\ r.existing_conditions = <<E11>>
                                     /\ r.exercise_level = "moderate" /\ ~r.smoking}
    /\ pc = "position"
    /\ conditions \in SeqsUpTo(PositionConditions, MaxConds)
    /\ names_cache = <<>>
    /\ base_risks = <<>>
    /\ risks_with_comorbidity = <<>>
    /\ final_risks = <<>>
    /\ contributing_factors = <<>>
    /\ risk_scores = <<>>
    /\ user_position = NoPosition
    /\ pull_vectors = <<>>
    /\ error = "none"
    /\ queries = <<>>
    /\ http_response = NoResponse
    /\ other = NoInvocation
    /\ NoCaches

NextPos == CalculatePositionStep

SpecPos == InitPos /\ [][NextPos]_vars

----------------------------------------------------------------------------
(* _apply_lifestyle_factors on arbitrary risk maps and profiles *)

\* risks given to the stage, in 1/CUnit: 0.8, 0.4, 0.05, 0, -0.01, 1.2
LifeRiskValues == {32000, 16000, 2000, 0, -400, 48000}

\* one disease of each category, all at the same risk; and the empty map
LifeRiskMaps ==
    {<<>>} \cup
    { [i \in 1..Len(CatalogCodes) |-> [code |-> CatalogCodes[i], val |-> v]] :
        v \in LifeRiskValues }

LifeRequests ==
    [age : {25, 40, 50, 70},
     gender : {"male"},
     bmi : {220, 270, 320},
     existing_conditions : {<<Z99>>},
     exercise_level : {"sedentary", "light", "moderate", "active"},
     smoking : BOOLEAN]

InitLife ==
    /\ store = NoStore
    /\ request \in LifeRequests
    /\ pc = "lifestyle"
    /\ conditions = <<>>
    /\ names_cache = <<>>
    /\ base_risks = <<>>
    /\ risks_with_comorbidity \in LifeRiskMaps
    /\ final_risks = <<>>
    /\ contributing_factors = <<>>
    /\ risk_scores = <<>>
    /\ user_position = NoPosition
    /\ pull_vectors = <<>>
    /\ error = "none"
    /\ queries = <<>>
    /\ http_response = NoResponse
    /\ other = NoInvocation
    /\ NoCaches

NextLife == ApplyLifestyleFactors

SpecLife == InitLife /\ [][NextLife]_vars

----------------------------------------------------------------------------
(* The calculate-risk route (api/routes/calculate.py) *)

\* the RiskCalculationResponse that calculate_risks returns at "done"
Response ==
    [risk_scores               |-> risk_scores,
     user_position             |-> user_position,
     pull_vectors              |-> pull_vectors,
     total_conditions_analyzed |-> Len(conditions)]

\* exceptions that may leave calculator.calculate_risks(body): the engine's
\* own ValueError, and errors that are not ValueErrors and carry the text of
\* a data-store failure or of a fault in the engine
RouteExceptions ==
    { [type |-> "ValueError", message |-> "No valid conditions found for provided ICD codes"],
      [type |-> "APIError", message |-> "relation \"diseases\" does not exist"],
      [type |-> "ConnectError", message |-> "connection refused: db.internal:5432"],
      [type |-> "KeyError", message |-> "'icd_code'"],
      [type |-> "Exception", message |-> "Failed to calculate risk scores"] }

\* variant: the detail of every error response is str(e)
ErrorResponse_LeakDetail(e) ==
    [status_code |-> IF e.type = "ValueError" THEN 400 ELSE 500,
     detail |-> e.message, body |-> None]

\* except ValueError as e: HTTPException(400, detail=str(e));
\* except Exception: HTTPException(500, detail="Failed to calculate risk scores")
ErrorResponse(e) ==
    IF e.type = "ValueError"
    THEN [status_code |-> 400, detail |-> e.message, body |-> None]
    ELSE [status_code |-> 500, detail |-> "Failed to calculate risk scores", body |-> None]

\* the route's handler, from the return or raise of calculate_risks onwards
calculate_risk ==
    /\ pc \in {"done", "raised"}
    /\ http_response' =
           IF pc = "done"
           THEN [status_code |-> 200, detail |-> "", body |-> Some(Response)]
           ELSE ErrorResponse(CHOOSE e \in RouteExceptions :
                                  error = e.type \o ": " \o e.message)
    /\ pc' = "responded"
    /\ UNCHANGED <<_instances, heap, _lock, callers, clock, settings, last_set,
                   other, store, request, conditions, names_cache, base_risks,
                   risks_with_comorbidity, final_risks, contributing_factors,
                   risk_scores, user_position, pull_vectors, error, queries>>

\* the moment calculate_risks has returned a result or raised
InitRoute ==
    /\ store = NoStore
    /\ request = [age |-> 40, gender |-> "male", bmi |-> 220,
                  existing_conditions |-> <<E11>>,
                  exercise_level |-> "moderate", smoking |-> FALSE]
    /\ names_cache = <<>>
    /\ base_risks = <<>>
    /\ risks_with_comorbidity = <<>>
    /\ final_risks = <<>>
    /\ contributing_factors = <<>>
    /\ pull_vectors = <<>>
    /\ queries = <<>>
    /\ http_response = NoResponse
    /\ other = NoInvocation
    /\ NoCaches
    /\ \/ /\ pc = "done"
          /\ error = "none"
          /\ conditions \in
                 UNION { {Pick(DiseaseRows(prev, coord), {1}), DiseaseRows(prev, coord)} :
                            prev \in PrevalenceTables, coord \in CoordinateTables }
          /\ user_position \in [x : {0 - Unit4, 0, 3333}, y : {0, 4000}, z : {0, Unit4}]
          /\ risk_scores \in
                 { <<>>,
                   <<[disease_id |-> I10, disease_name |-> Some(I10), risk |-> 2625,
                      level |-> "moderate",
                      contributing_factors |-> <<"Population prevalence baseline">>]>> }
       \/ /\ pc = "raised"
          /\ error \in {e.type \o ": " \o e.message : e \in RouteExceptions}
          /\ conditions = <<>>
          /\ user_position = NoPosition
          /\ risk_scores = <<>>

SpecRoute == InitRoute /\ [][calculate_risk]_vars

----------------------------------------------------------------------------
(* Two concurrent calculate-risk requests on one event loop *)

\* what belongs to one request: the handler's locals, its RiskCalculator with
\* the name cache, and the locals of calculate_risks
Invocation ==
    [request |-> request, pc |-> pc, conditions |-> conditions,
     names_cache |-> names_cache, base_risks |-> base_risks,
     risks_with_comorbidity |-> risks_with_comorbidity,
     final_risks |-> final_risks, contributing_factors |-> contributing_factors,
     risk_scores |-> risk_scores, user_position |-> user_position,
     pull_vectors |-> pull_vectors, error |-> error, queries |-> queries,
     http_response |-> http_response]

\* variant: the resolved conditions are kept where both requests see them
Switch_SharedConditions ==
    /\ other # NoInvocation
    /\ other' = Invocation
    /\ request' = other.request
    /\ pc' = other.pc
    /\ names_cache' = other.names_cache
    /\ base_risks' = other.base_risks
    /\ risks_with_comorbidity' = other.risks_with_comorbidity
    /\ final_risks' = other.final_risks
    /\ contributing_factors' = other.contributing_factors
    /\ risk_scores' = other.risk_scores
    /\ user_position' = other.user_position
    /\ pull_vectors' = other.pull_vectors
    /\ error' = other.error
    /\ queries' = other.queries
    /\ http_response' = other.http_response
    /\ UNCHANGED <<store, conditions, _instances, heap, _lock, callers, clock, settings, last_set>>

\* the running request is suspended at an await and the event loop resumes
\* the other request; the store client is the one thing both use
Switch ==
    /\ other # NoInvocation
    /\ other' = Invocation
    /\ request' = other.request
    /\ pc' = other.pc
    /\ conditions' = other.conditions
    /\ names_cache' = other.names_cache
    /\ base_risks' = other.base_risks
    /\ risks_with_comorbidity' = other.risks_with_comorbidity
    /\ final_risks' = other.final_risks
    /\ contributing_factors' = other.contributing_factors
    /\ risk_scores' = other.risk_scores
    /\ user_position' = other.user_position
    /\ pull_vectors' = other.pull_vectors
    /\ error' = other.error
    /\ queries' = other.queries
    /\ http_response' = other.http_response
    /\ UNCHANGED <<store, _instances, heap, _lock, callers, clock, settings, last_set>>

\* two requests have arrived and neither handler has run yet
InitPair ==
    /\ store \in { [diseases |-> DiseaseRows(prev, coord),
                     relationships |-> Pick(RelationshipRows, {1, 2})] :
                       prev \in PrevalenceTables, coord \in CoordinateTables }
    /\ request \in { r \in Requests :
                        /\ r.age = 70 /\ r.bmi = 320 /\ r.smoking
                        /\ r.exercise_level = "sedentary" /\ r.gender = "female"
                        /\ r.existing_conditions \in {<<E11>>, <<Z99>>} }
    /\ pc = "get_conditions"
    /\ conditions = <<>>
    /\ names_cache = <<>>
    /\ base_risks = <<>>
    /\ risks_with_comorbidity = <<>>
    /\ final_risks = <<>>
    /\ contributing_factors = <<>>
    /\ risk_scores = <<>>
    /\ user_position = NoPosition
    /\ pull_vectors = <<>>
    /\ error = "none"
    /\ queries = <<>>
    /\ NoCaches
    /\ http_response = NoResponse
    /\ other \in { [request |-> r, pc |-> "get_conditions", conditions |-> <<>>,
                     names_cache |-> <<>>, base_risks |-> <<>>,
                     risks_with_comorbidity |-> <<>>, final_risks |-> <<>>,
                     contributing_factors |-> <<>>, risk_scores |-> <<>>,
                     user_position |-> NoPosition, pull_vectors |-> <<>>,
                     error |-> "none", queries |-> <<>>,
                     http_response |-> NoResponse] :
                       r \in { q \in Requests :
                                 /\ q.age = 25 /\ q.bmi = 220 /\ ~q.smoking
                                 /\ q.exercise_level = "moderate" /\ q.gender = "male"
                                 /\ q.existing_conditions \in {<<E11>>, <<I10>>} } }

SpecPair == InitPair /\ [][Next \/ calculate_risk \/ Switch]_vars

\* what the handler answers when calculate_risks runs from its first line to
\* its last on the store st without another request in between, its queries
\* succeeding and failing as recorded in q
Alone(st, req, q) ==
    LET ok(name) == \A i \in 1..Len(q) : q[i].name = name => q[i].ok
        conds  == GetConditionsResult(st, req.existing_conditions, ok("conditions"))
        cache  == IF ok("catalog")
                  THEN CacheCatalogNames(CacheConditionNames(<<>>, conds), st.diseases)
                  ELSE CacheConditionNames(<<>>, conds)
        base   == BaseRisksResult(st, req.gender, ok("catalog"))
        com    == ComorbidityResult(st, base, req.existing_conditions,
                                    ok("identifiers"), ok("relationships"))
        final  == LifestyleRisks(com, req)
        scores == ConvertToRiskScores(st, cache, final, LifestyleFactors(com, req),
                                      req.existing_conditions, ok("names"))
        position == CalculatePosition(conds)
    IN  IF NoValidConditions(conds)
        THEN ErrorResponse([type |-> "ValueError",
                            message |-> "No valid conditions found for provided ICD codes"])
        ELSE [status_code |-> 200, detail |-> "",
              body |-> Some([risk_scores |-> scores,
                             user_position |-> position,
                             pull_vectors |-> CalculatePullVectors(st, final, position,
                                                  PULL_THRESHOLD, ok("coordinates")),
                             total_conditions_analyzed |-> Len(conds)])]

----------------------------------------------------------------------------
(* _get_disease_names on a calculator whose name cache is partly filled *)

\* _convert_to_risk_scores is entered with a risk map over catalog codes and
\* one code the store does not hold; the cache holds what _get_conditions or
\* the base-risk pass stored for some of the catalog rows
InitNames ==
    /\ store \in { [diseases |-> DiseaseRows(prev, coord), relationships |-> <<>>] :
                       prev \in PrevalenceTables, coord \in CoordinateTables }
    /\ request = [age |-> 40, gender |-> "male", bmi |-> 220,
                  existing_conditions |-> <<E11>>,
                  exercise_level |-> "moderate", smoking |-> FALSE]
    /\ pc = "convert"
    /\ conditions = <<>>
    /\ names_cache \in
           UNION { {CacheConditionNames(<<>>, Pick(store.diseases, I)),
                    CacheCatalogNames(<<>>, Pick(store.diseases, I))} :
                      I \in SUBSET (1..Len(store.diseases)) }
    /\ base_risks = <<>>
    /\ risks_with_comorbidity = <<>>
    /\ final_risks \in
           { [k \in 1..Cardinality(I) |->
                 [code |-> Pick(<<I10, Z99, J45, N18>>, I)[k], val |-> k * (RUnit \div 8)]] :
                   I \in SUBSET (1..4) }
    /\ contributing_factors = <<>>
    /\ risk_scores = <<>>
    /\ user_position = NoPosition
    /\ pull_vectors = <<>>
    /\ error = "none"
    /\ queries = <<>>
    /\ http_response = NoResponse
    /\ other = NoInvocation
    /\ NoCaches

SpecNames == InitNames /\ [][ConvertToRiskScoresStep]_vars

----------------------------------------------------------------------------
(* _get_age_group and _get_disease_category inside _apply_lifestyle_factors *)

\* the stage is entered with ages on and around the band limits and with a
\* risk map whose codes are upper case, lower case, one character, empty, and
\* one that starts with U+0131
InitBands ==
    /\ store = NoStore
    /\ request \in [age : {1, 18, 29, 30, 44, 45, 64, 65, 80, 120},
                     gender : {"male"},
                     bmi : {220, 320},
                     existing_conditions : {<<Z99>>},
                     exercise_level : {"sedentary", "moderate"},
                     smoking : BOOLEAN]
    /\ pc = "lifestyle"
    /\ conditions = <<>>
    /\ names_cache = <<>>
    /\ base_risks = <<>>
    /\ risks_with_comorbidity \in
           { [i \in 1..Len(codes) |-> [code |-> codes[i], val |-> 2000]] :
               codes \in { <<E11, I10, J45, N18, <<>>, <<"X">> >>,
                           << <<"e", "1", "1">>, <<"i", "1", "0">>, <<"j", "4", "5">>,
                              <<"U+0131", "1", "0">>, <<"1", "E">>, <<"K", "5", "0">> >> } }
    /\ final_risks = <<>>
    /\ contributing_factors = <<>>
    /\ risk_scores = <<>>
    /\ user_position = NoPosition
    /\ pull_vectors = <<>>
    /\ error = "none"
    /\ queries = <<>>
    /\ http_response = NoResponse
    /\ other = NoInvocation
    /\ NoCaches

SpecBands == InitBands /\ [][ApplyLifestyleFactors]_vars

----------------------------------------------------------------------------
(* ResponseCache.get_instance called by several threads (api/services/cache.py) *)

\* no calculate-risk request is in progress
NoCalculation ==
    /\ store = NoStore
    /\ request = [age |-> 40, gender |-> "male", bmi |-> 220,
                  existing_conditions |-> <<E11>>,
                  exercise_level |-> "moderate", smoking |-> FALSE]
    /\ pc = "responded"
    /\ conditions = <<>>
    /\ names_cache = <<>>
    /\ base_risks = <<>>
    /\ risks_with_comorbidity = <<>>
    /\ final_risks = <<>>
    /\ contributing_factors = <<>>
    /\ risk_scores = <<>>
    /\ user_position = NoPosition
    /\ pull_vectors = <<>>
    /\ error = "none"
    /\ queries = <<>>
    /\ http_response = NoResponse
    /\ other = NoInvocation

MaxThreads == 3

CacheNames == {"diseases_list", "network"}

\* ResponseCache.__init__: a new object with an empty TTLCache; _cache lists
\* the entries from the least to the most recently used
NewResponseCache(name, ttl, maxsize) ==
    [name |-> name, ttl |-> ttl, maxsize |-> maxsize, _cache |-> <<>>]

\* variant: the thread enters without waiting for the lock
Acquire_NoWait(t) ==
    /\ callers[t].pc = "call"
    /\ _lock' = t
    /\ callers' = [callers EXCEPT ![t].pc = "locked"]
    /\ UNCHANGED <<_instances, heap, clock, settings, last_set,
                   store, request, pc, conditions, names_cache, base_risks,
                   risks_with_comorbidity, final_risks, contributing_factors,
                   risk_scores, user_position, pull_vectors, error, queries,
                   http_response, other>>

\* "with cls._lock:" the thread waits until the lock is free and takes it
Acquire(t) ==
    /\ callers[t].pc = "call"
    /\ _lock = 0
    /\ _lock' = t
    /\ callers' = [callers EXCEPT ![t].pc = "locked"]
    /\ UNCHANGED <<_instances, heap, clock, settings, last_set,
                   store, request, pc, conditions, names_cache, base_risks,
                   risks_with_comorbidity, final_risks, contributing_factors,
                   risk_scores, user_position, pull_vectors, error, queries,
                   http_response, other>>

\* the body of get_instance, one statement at a time
get_instance(t) ==
    /\ \/ \* if name not in cls._instances:
          /\ callers[t].pc = "locked"
          /\ callers' = [callers EXCEPT ![t].pc =
                             IF _instances[callers[t].name] = 0 THEN "create" ELSE "return"]
          /\ UNCHANGED <<_instances, heap, _lock>>
       \/ \* cls._instances[name] = cls(name, ttl, maxsize)
          /\ callers[t].pc = "create"
          /\ heap' = Append(heap, NewResponseCache(callers[t].name, 3600, 1000))
          /\ _instances' = [_instances EXCEPT ![callers[t].name] = Len(heap) + 1]
          /\ callers' = [callers EXCEPT ![t].pc = "return"]
          /\ UNCHANGED _lock
       \/ \* return cls._instances[name], and the lock is released
          /\ callers[t].pc = "return"
          /\ callers' = [callers EXCEPT ![t].pc = "has",
                                         ![t].cache = _instances[callers[t].name]]
          /\ _lock' = 0
          /\ UNCHANGED <<_instances, heap>>
    /\ UNCHANGED <<clock, settings, last_set,
                   store, request, pc, conditions, names_cache, base_risks,
                   risks_with_comorbidity, final_risks, contributing_factors,
                   risk_scores, user_position, pull_vectors, error, queries,
                   http_response, other>>

\* cache.set(path, params, data) through the reference the thread got; the
\* path is the thread's own, the entry does not expire while clock stands
set(t) ==
    /\ callers[t].pc = "has"
    /\ callers[t].stored = None
    /\ heap' = [heap EXCEPT ![callers[t].cache]._cache =
                    Append(@, [key |-> ToString(t), data |-> t,
                               expires |-> clock + heap[callers[t].cache].ttl])]
    /\ callers' = [callers EXCEPT ![t].stored = Some(ToString(t))]
    /\ UNCHANGED <<_instances, _lock, clock, settings, last_set,
                   store, request, pc, conditions, names_cache, base_risks,
                   risks_with_comorbidity, final_risks, contributing_factors,
                   risk_scores, user_position, pull_vectors, error, queries,
                   http_response, other>>

\* no cache exists yet and every thread is about to call get_instance
InitInstance ==
    /\ _instances = [n \in CacheNames |-> 0]
    /\ heap = <<>>
    /\ _lock = 0
    /\ callers \in [1..MaxThreads ->
                        {[pc |-> "call", name |-> n, cache |-> 0, stored |-> None] :
                            n \in CacheNames}]
    /\ clock = 0
    /\ settings = [app_name |-> "Disease-Relater API"]
    /\ last_set = <<>>
    /\ NoCalculation

SpecInstance ==
    InitInstance /\ [][\E t \in 1..MaxThreads : Acquire(t) \/ get_instance(t) \/ set(t)]_vars

----------------------------------------------------------------------------
(* cache_response: calls of a wrapped route handler on one event loop *)

MaxCalls == 3
MaxClock == 2

\* the entries of a TTLCache that have not expired at the time now
Live(self, now) == SelectSeq(self._cache, LAMBDA e : now < e.expires)

\* variant: the entry is built and returned but not kept
ResponseCache_set_NoStore(self, key, data, now) == self

\* ResponseCache.set: TTLCache.__setitem__ drops the expired entries, makes
\* room by dropping the least recently used ones when the key is new and the
\* cache is full, and puts the entry last
ResponseCache_set(self, key, data, now) ==
    LET others == SelectSeq(Live(self, now), LAMBDA e : e.key # key)
        room   == IF Len(others) >= self.maxsize
                  THEN SubSeq(others, Len(others) - self.maxsize + 2, Len(others))
                  ELSE others
    IN  [self EXCEPT !._cache = Append(room, [key |-> key, data |-> data,
                                              expires |-> now + self.ttl])]

\* ResponseCache.get with caching enabled: TTLCache.get gives the entry of
\* the key if it has not expired, and makes it the most recently used
ResponseCache_get(self, key, now) ==
    LET found == SelectSeq(Live(self, now), LAMBDA e : e.key = key)
    IN  IF found = <<>>
        THEN [entry |-> None, self |-> self]
        ELSE [entry |-> Some(found[1]),
              self  |-> [self EXCEPT !._cache =
                            Append(SelectSeq(self._cache, LAMBDA e : e.key # key), found[1])]]

\* the wrapper from its first line to the cache check: the settings are read,
\* the cache of the name is got or created, and the entry of the request's
\* path and query parameters is looked up; on a miss, and when caching is
\* disabled, the wrapped function is awaited
wrapper(c) ==
    /\ callers[c].pc = "request"
    /\ IF "cache_enabled" \notin DOMAIN settings
       THEN \* settings.cache_enabled raises AttributeError
            /\ callers' = [callers EXCEPT ![c].pc = "raised"]
            /\ UNCHANGED <<_instances, heap>>
       ELSE IF ~settings.cache_enabled
       THEN /\ callers' = [callers EXCEPT ![c].pc = "awaiting", ![c].invoked = TRUE]
            /\ UNCHANGED <<_instances, heap>>
       ELSE LET name == "diseases_list"
                made == IF _instances[name] = 0
                        THEN Append(heap, NewResponseCache(name, settings.cache_diseases_ttl,
                                              Min(1000, settings.cache_max_size)))
                        ELSE heap
                cache == IF _instances[name] = 0 THEN Len(made) ELSE _instances[name]
                got == ResponseCache_get(made[cache], callers[c].key, clock)
            IN  /\ _instances' = [_instances EXCEPT ![name] = cache]
                /\ heap' = [made EXCEPT ![cache] = got.self]
                /\ IF got.entry # None
                   THEN /\ callers' =
                               [callers EXCEPT
                                   ![c].pc = "returned",
                                   ![c].result =
                                       IF callers[c].if_none_match = Some(got.entry[1].data)
                                       THEN Some([status_code |-> 304,
                                                  etag |-> got.entry[1].data])
                                       ELSE Some(got.entry[1].data)]
                   ELSE callers' = [callers EXCEPT ![c].pc = "awaiting",
                                                   ![c].invoked = TRUE]
    /\ UNCHANGED <<_lock, clock, settings, last_set,
                   store, request, pc, conditions, names_cache, base_risks,
                   risks_with_comorbidity, final_risks, contributing_factors,
                   risk_scores, user_position, pull_vectors, error, queries,
                   http_response, other>>

\* the wrapped function returns what the data is at that time; with caching
\* enabled the wrapper stores it under the request's key; the call returns it
wrapped_returns(c) ==
    /\ callers[c].pc = "awaiting"
    /\ LET result == [key |-> callers[c].key, version |-> clock]
       IN  /\ callers' = [callers EXCEPT ![c].pc = "returned", ![c].result = Some(result)]
           /\ IF settings.cache_enabled
              THEN /\ heap' = [heap EXCEPT ![_instances["diseases_list"]] =
                                  ResponseCache_set(@, callers[c].key, result, clock)]
                   /\ last_set' = [last_set EXCEPT ![callers[c].key] =
                                      Some([data |-> result, at |-> clock, valid |-> TRUE])]
              ELSE UNCHANGED <<heap, last_set>>
    /\ UNCHANGED <<_instances, _lock, clock, settings,
                   store, request, pc, conditions, names_cache, base_risks,
                   risks_with_comorbidity, final_risks, contributing_factors,
                   risk_scores, user_position, pull_vectors, error, queries,
                   http_response, other>>

\* ResponseCache.invalidate(path, params) for one entry, or for all of them
\* when key is None; it is not called again once it has hit a stored entry
invalidate(key) ==
    /\ _instances["diseases_list"] # 0
    /\ \A k \in DOMAIN last_set : IF last_set[k] = None THEN TRUE ELSE last_set[k][1].valid
    /\ heap' = [heap EXCEPT ![_instances["diseases_list"]]._cache =
                    IF key = None THEN <<>>
                    ELSE SelectSeq(@, LAMBDA e : e.key # key[1])]
    /\ last_set' = [k \in DOMAIN last_set |->
                        IF last_set[k] # None /\ key \in {None, Some(k)}
                        THEN Some([last_set[k][1] EXCEPT !.valid = FALSE])
                        ELSE last_set[k]]
    /\ UNCHANGED <<_instances, _lock, callers, clock, settings,
                   store, request, pc, conditions, names_cache, base_risks,
                   risks_with_comorbidity, final_risks, contributing_factors,
                   risk_scores, user_position, pull_vectors, error, queries,
                   http_response, other>>

\* a second passes
Tick ==
    /\ callers # <<>>
    /\ clock < MaxClock
    /\ clock' = clock + 1
    /\ UNCHANGED <<_instances, heap, _lock, callers, settings, last_set,
                   store, request, pc, conditions, names_cache, base_risks,
                   risks_with_comorbidity, final_risks, contributing_factors,
                   risk_scores, user_position, pull_vectors, error, queries,
                   http_response, other>>

\* the paths and query parameters of the requests, as the cache keys made of them
RequestKeys == {"/api/diseases:[]", "/api/diseases:[[\"chapter\", \"I\"]]"}

\* no cache exists; the requests have arrived: all for one path but the second,
\* which may have a query parameter, and the third may carry the ETag of the
\* data of second 0 in If-None-Match; the settings have caching on with room for
\* one or two entries that live two seconds, or off, or are those of
\* api/config.py, which has no cache option
InitWrap ==
    /\ _instances = [n \in CacheNames |-> 0]
    /\ heap = <<>>
    /\ _lock = 0
    /\ callers \in
           { [c \in 1..MaxCalls |->
                 [pc |-> "request",
                  key |-> IF c = 2 THEN k ELSE "/api/diseases:[]",
                  if_none_match |-> IF c = 3 THEN h ELSE None,
                  invoked |-> FALSE, result |-> None]] :
               k \in RequestKeys,
               h \in {None, Some([key |-> "/api/diseases:[]", version |-> 0])} }
    /\ clock = 0
    /\ settings \in { [cache_enabled |-> TRUE, cache_max_size |-> 1, cache_diseases_ttl |-> 2],
                       [cache_enabled |-> TRUE, cache_max_size |-> 2, cache_diseases_ttl |-> 2],
                       [cache_enabled |-> FALSE, cache_max_size |-> 2, cache_diseases_ttl |-> 2],
                       [app_name |-> "Disease-Relater API"] }
    /\ last_set = [k \in RequestKeys |-> None]
    /\ NoCalculation

SpecWrap ==
    InitWrap /\ [][\/ \E c \in 1..MaxCalls : wrapper(c) \/ wrapped_returns(c)
                   \/ \E key \in {None} \cup {Some(k) : k \in RequestKeys} : invalidate(key)
                   \/ Tick]_vars

----------------------------------------------------------------------------
(* Properties *)

Indices(s) == 1..Len(s)
ExistingSet == Range(request.existing_conditions)
\* the codes of existing_conditions that the store knows
KnownExisting == {c \in ExistingSet : \E i \in Indices(store.diseases) : store.diseases[i].icd_code = c}
Failed(name) == \E i \in Indices(queries) : queries[i].name = name /\ ~queries[i].ok

\* C1: every reported risk, in risk_scores and in pull_vectors, lies in [0.0, 1.0]
C1_ReportedRiskInUnitInterval ==
    /\ \A i \in Indices(risk_scores) :
           0 <= risk_scores[i].risk /\ risk_scores[i].risk <= Unit4
    /\ \A i \in Indices(pull_vectors) :
           0 <= pull_vectors[i].risk /\ pull_vectors[i].risk <= Unit4

\* a result whose catalog held a product above 1.0 (reported as 1.0), a
\* negative risk (not reported) and at least one pull vector
C1_Witness ==
    /\ pc = "done"
    /\ \E i \in Indices(risk_scores) :
           /\ risk_scores[i].risk = Unit4
           /\ Get(risks_with_comorbidity, risk_scores[i].disease_id) > CUnit
    /\ \E i \in Indices(final_risks) : final_risks[i].val < 0
    /\ pull_vectors # <<>>

\* the threshold classification of a risk rounded to 4 decimals (in 1/Unit4)
LevelOfReported(r4) ==
    IF r4 >= RISK_VERY_HIGH * (Unit4 \div 100) THEN "very_high"
    ELSE IF r4 >= RISK_HIGH * (Unit4 \div 100) THEN "high"
    ELSE IF r4 >= RISK_MODERATE * (Unit4 \div 100) THEN "moderate"
    ELSE "low"

\* C2: the level of every RiskScore is the threshold classification of the
\* risk reported in the same entry, also at 0.25, 0.50 and 0.75
C2_LevelMatchesReportedRisk ==
    \A i \in Indices(risk_scores) :
        risk_scores[i].level = LevelOfReported(risk_scores[i].risk)

\* C3: risk_scores holds no existing condition and no disease whose
\* post-adjustment risk is <= 0
C3_OnlyEligibleDiseases ==
    \A i \in Indices(risk_scores) :
        /\ risk_scores[i].disease_id \notin ExistingSet
        /\ HasKey(final_risks, risk_scores[i].disease_id)
        /\ Get(final_risks, risk_scores[i].disease_id) > 0

\* a result for which the filter dropped an existing condition with positive
\* risk, a disease with base risk 0 and a disease with negative risk
C3_Witness ==
    /\ pc = "done"
    /\ risk_scores # <<>>
    /\ \E i \in Indices(final_risks) :
           final_risks[i].code \in ExistingSet /\ final_risks[i].val > 0
    /\ \E i \in Indices(final_risks) :
           final_risks[i].code \notin ExistingSet /\ final_risks[i].val = 0
    /\ \E i \in Indices(final_risks) :
           final_risks[i].code \notin ExistingSet /\ final_risks[i].val < 0

\* C5: pull_vectors is in non-increasing order of magnitude
C5_PullVectorsSortedByMagnitude ==
    \A i \in Indices(pull_vectors) : \A j \in Indices(pull_vectors) :
        i < j => pull_vectors[i].magnitude >= pull_vectors[j].magnitude

PositionIn(d, code) == CHOOSE i \in Indices(d) : d[i].code = code

\* two pull vectors of different magnitude that the sort has exchanged
C5_Witness ==
    /\ pc = "done"
    /\ \E i \in Indices(pull_vectors) : \E j \in Indices(pull_vectors) :
           /\ i < j
           /\ pull_vectors[i].magnitude > pull_vectors[j].magnitude
           /\ PositionIn(final_risks, pull_vectors[i].disease_id)
                  > PositionIn(final_risks, pull_vectors[j].disease_id)

\* C6 as stated: every pull vector's risk field strictly exceeds 0.3
C6_RiskFieldAboveThreshold ==
    \A i \in Indices(pull_vectors) :
        pull_vectors[i].risk > PULL_THRESHOLD * (Unit4 \div 100)

\* C6 amended: every pull vector belongs to a disease whose post-adjustment
\* risk strictly exceeds 0.3, so that its risk field (rounded to 4 decimals)
\* is at least 0.3; a disease with post-adjustment risk 0.3 or less has none
C6_PullVectorRiskAboveThreshold ==
    /\ \A i \in Indices(pull_vectors) :
           /\ HasKey(final_risks, pull_vectors[i].disease_id)
           /\ Get(final_risks, pull_vectors[i].disease_id)
                  > PULL_THRESHOLD * (RUnit \div 100)
           /\ pull_vectors[i].risk >= PULL_THRESHOLD * (Unit4 \div 100)
    /\ \A k \in Indices(final_risks) :
           final_risks[k].val <= PULL_THRESHOLD * (RUnit \div 100)
               => \A i \in Indices(pull_vectors) :
                      pull_vectors[i].disease_id # final_risks[k].code

\* a pull vector whose risk field is exactly 0.3, next to a disease of
\* positive risk at most 0.3 that has none
C6_Witness ==
    /\ pc = "done"
    /\ \E i \in Indices(pull_vectors) :
           pull_vectors[i].risk = PULL_THRESHOLD * (Unit4 \div 100)
    /\ \E k \in Indices(final_risks) :
           /\ final_risks[k].val > 0
           /\ final_risks[k].val <= PULL_THRESHOLD * (RUnit \div 100)
           /\ ~Failed("coordinates")

NoValidConditionsError == "ValueError: No valid conditions found for provided ICD codes"

\* C8: when no code of existing_conditions is a known disease, calculate_risks
\* raises the "No valid conditions found" ValueError, returns nothing, and the
\* condition lookup is the only query it has issued
C8_NoKnownConditionRaises ==
    (KnownExisting = {} /\ pc # "get_conditions")
        => /\ pc = "raised"
           /\ error = NoValidConditionsError
           /\ Len(queries) = 1 /\ queries[1].name = "conditions"
           /\ risk_scores = <<>> /\ pull_vectors = <<>> /\ base_risks = <<>>

\* the lookup succeeded, found none of the codes, and the call raised
C8_Witness ==
    /\ pc = "raised"
    /\ KnownExisting = {}
    /\ queries = <<Query("conditions", TRUE)>>

\* C9 as stated: with a known disease among existing_conditions the call
\* never raises, whichever fetch fails
C9_KnownConditionNeverRaises ==
    KnownExisting # {} => pc # "raised"

\* C9 amended: once the condition lookup has returned at least one disease
\* the call never raises and stays on its way to the result whichever later
\* fetch fails; the stage whose fetch failed keeps an empty or unchanged map; the
\* call raises only with an empty condition list
C9_ResolvedConditionNeverRaises ==
    /\ conditions # <<>> =>
           /\ error = "none"
           /\ pc \in {"base_risks", "comorbidity", "lifestyle", "convert",
                      "position", "pull_vectors", "done"}
    /\ pc = "raised" => conditions = <<>> /\ error = NoValidConditionsError
    /\ Failed("catalog") => base_risks = <<>>
    /\ (Failed("identifiers") \/ Failed("relationships"))
           /\ pc \notin {"comorbidity"} => risks_with_comorbidity = base_risks
    /\ Failed("coordinates") => pull_vectors = <<>>

\* a result returned although the relationship and coordinate lookups failed
C9_Witness ==
    /\ pc = "done"
    /\ Failed("relationships") /\ Failed("coordinates")
    /\ risk_scores # <<>>

\* the catalog row of a code
RowOf(code) == store.diseases[CHOOSE i \in Indices(store.diseases) : store.diseases[i].icd_code = code]
\* the identifiers of the existing conditions the store knows
KnownExistingIds == {store.diseases[i].id : i \in {k \in Indices(store.diseases) : store.diseases[k].icd_code \in ExistingSet}}
\* does a relationship row pair the disease with an existing condition
Pairs(rel, id) ==
    \/ rel.disease_1_id = id /\ rel.disease_2_id \in KnownExistingIds
    \/ rel.disease_2_id = id /\ rel.disease_1_id \in KnownExistingIds

\* value * product of the odds ratios of the rows i.. that pair the disease
\* with an existing condition; positiveOnly: rows with odds ratio <= 0 are left out
RECURSIVE TimesOddsRatios(_, _, _, _)
TimesOddsRatios(value, id, i, positiveOnly) ==
    IF i > Len(store.relationships) THEN value
    ELSE LET rel == store.relationships[i]
             use == /\ Pairs(rel, id)
                    /\ rel.odds_ratio # None
                    /\ positiveOnly => rel.odds_ratio[1] > 0
         IN  TimesOddsRatios(IF use THEN (value * rel.odds_ratio[1]) \div ORUnit ELSE value,
                             id, i + 1, positiveOnly)

\* round4(min(1.0, c * m)) for c in 1/CUnit and m in 1/MUnit, in 1/Unit4
Round4Capped(c, m) == Min(Unit4, MulRound(c, m, RUnit \div Unit4))

LookupsSucceeded == ~Failed("identifiers") /\ ~Failed("relationships")

ExampleRequest ==
    [age |-> 70, gender |-> "male", bmi |-> 320, existing_conditions |-> <<E11>>,
     exercise_level |-> "moderate", smoking |-> FALSE]

\* the store of the example: I10 has prevalence 0.05 for men and one
\* association with E11 of odds ratio 3.5; no query fails
ExampleScenario ==
    /\ request = ExampleRequest
    /\ RowOf(I10).prevalence_male = Some(2000)
    /\ store.relationships = <<[disease_1_id |-> 1, disease_2_id |-> 2, odds_ratio |-> Some(7)]>>
    /\ \A i \in Indices(queries) : queries[i].ok

ExampleOutcome ==
    (ExampleScenario /\ pc \in {"position", "pull_vectors", "done"})
        => \E i \in Indices(risk_scores) :
               /\ risk_scores[i].disease_id = I10
               /\ risk_scores[i].risk = 2625
               /\ risk_scores[i].level = "moderate"

\* C10 as stated: every reported risk is round4(min(1.0, base prevalence x
\* the odds ratios of all the disease's association rows with existing
\* conditions x lifestyle/age multiplier)); the example yields I10 at 0.2625
C10_RiskIsProductOfAllOddsRatios ==
    /\ \A i \in Indices(risk_scores) :
           LET code == risk_scores[i].disease_id
               base == BaseRiskOf(RowOf(code), request.gender)
           IN  risk_scores[i].risk =
                   Round4Capped(TimesOddsRatios(base, RowOf(code).id, 1, FALSE),
                                Multiplier(code, request))
    /\ ExampleOutcome

\* C10 amended: every reported risk is round4(min(1.0, base prevalence x the
\* positive odds ratios of the association rows with existing conditions that
\* the relationship lookup returned x lifestyle/age multiplier)), no row
\* being returned when the identifier or relationship lookup fails; the
\* example yields I10 at 0.2625, moderate
C10_RiskIsProductOfAppliedOddsRatios ==
    /\ \A i \in Indices(risk_scores) :
           LET code == risk_scores[i].disease_id
               base == BaseRiskOf(RowOf(code), request.gender)
           IN  risk_scores[i].risk =
                   Round4Capped(IF LookupsSucceeded
                                THEN TimesOddsRatios(base, RowOf(code).id, 1, TRUE)
                                ELSE base,
                                Multiplier(code, request))
    /\ ExampleOutcome

\* the example has run to its result, with I10 reported
C10_Witness ==
    /\ pc = "done"
    /\ ExampleScenario
    /\ \E i \in Indices(risk_scores) : risk_scores[i].disease_id = I10

\* the codes _convert_to_risk_scores may report
Eligible == {final_risks[k].code : k \in {n \in Indices(final_risks) :
                 final_risks[n].val > 0 /\ final_risks[n].code \notin ExistingSet}}
Returned == {risk_scores[i].disease_id : i \in Indices(risk_scores)}

\* C4: risk_scores is in non-increasing order of risk and has at most 50
\* entries; it is the first 50 entries of the sorted list of all eligible
\* diseases, so no omitted disease has a reported risk above a returned one
C4_SortedAndCutAtFifty ==
    /\ \A i \in Indices(risk_scores) : \A j \in Indices(risk_scores) :
           i < j => risk_scores[i].risk >= risk_scores[j].risk
    /\ Len(risk_scores) <= TOP_N
    /\ pc \in {"position", "pull_vectors", "done"} =>
           /\ Returned \subseteq Eligible
           /\ Cardinality(Returned) = Len(risk_scores)
           /\ Len(risk_scores) = Min(TOP_N, Cardinality(Eligible))
           /\ \A c \in Eligible \ Returned : \A i \in Indices(risk_scores) :
                  Round4Risk(Get(final_risks, c)) <= risk_scores[i].risk

\* more than 50 eligible diseases: 50 are returned and an omitted disease
\* stands in the risk map before a returned one
C4_Witness ==
    /\ pc = "done"
    /\ Cardinality(Eligible) > TOP_N
    /\ Len(risk_scores) = TOP_N
    /\ \E c \in Eligible \ Returned : \E i \in Indices(risk_scores) :
           /\ PositionIn(final_risks, c) < PositionIn(final_risks, risk_scores[i].disease_id)
           /\ Round4Risk(Get(final_risks, c)) < risk_scores[i].risk

\* the quotient of an axis before the final clamp, in 1/Unit4
RawQuotient(axis) ==
    RoundScaled(WeightedSum(conditions, axis, 1), Unit4 \div StoreCoordUnit,
                TotalWeight(conditions, 1))

\* C7: each coordinate of the user position lies in [-1, 1], and clamping it
\* again leaves it unchanged
C7_PositionWithinBounds ==
    \A a \in {"x", "y", "z"} :
        /\ 0 - Unit4 <= user_position[a] /\ user_position[a] <= Unit4
        /\ Clamp(user_position[a], Unit4) = user_position[a]

\* a position computed from conditions with an out-of-range coordinate, a
\* missing coordinate and a negative weight, whose quotient on the x axis
\* was outside [-1, 1] before the clamp
C7_Witness ==
    /\ pc = "pull_vectors"
    /\ \E i \in Indices(conditions) :
           conditions[i].vector_x # None /\ Abs(conditions[i].vector_x[1]) > StoreCoordUnit
    /\ \E i \in Indices(conditions) : conditions[i].vector_z = None
    /\ \E i \in Indices(conditions) :
           Truthy(conditions[i].prevalence_total) /\ conditions[i].prevalence_total[1] < 0
    /\ TotalWeight(conditions, 1) # 0
    /\ Abs(RawQuotient("vector_x")) > Unit4
    /\ Abs(user_position.x) = Unit4

----------------------------------------------------------------------------
(* Stage contracts *)

AfterComorbidity == pc \in {"lifestyle", "convert", "position", "pull_vectors", "done"}

\* C11: the comorbidity stage returns the keys of the base-risk map, each
\* value being the base risk times the odds ratio of every returned row that
\* pairs the disease with an existing condition and has a positive odds
\* ratio; other rows multiply nothing and no cap is applied
C11_ComorbidityIsProductOfPairingRows ==
    AfterComorbidity =>
        /\ Len(risks_with_comorbidity) = Len(base_risks)
        /\ \A i \in Indices(base_risks) :
               /\ risks_with_comorbidity[i].code = base_risks[i].code
               /\ risks_with_comorbidity[i].val =
                      IF LookupsSucceeded
                      THEN TimesOddsRatios(base_risks[i].val,
                                           RowOf(base_risks[i].code).id, 1, TRUE)
                      ELSE base_risks[i].val

\* the multiplier M of the lifestyle stage, in 1/MUnit: BMI, smoking and
\* exercise factors in tenths times the age factor in twentieths
StatedMultiplier(code, req) ==
    LET category == _get_disease_category(code)
        bmi      == IF category = "metabolic"
                    THEN IF req.bmi >= 300 THEN 15
                         ELSE IF req.bmi >= 250 THEN 12 ELSE 10
                    ELSE 10
        smoking  == IF req.smoking
                    THEN IF category = "cardiovascular" THEN 18
                         ELSE IF category = "respiratory" THEN 16 ELSE 10
                    ELSE 10
        exercise == IF category = "cardiovascular"
                    THEN IF req.exercise_level \in {"sedentary", "light"} THEN 13
                         ELSE IF req.exercise_level = "active" THEN 7 ELSE 10
                    ELSE 10
        age      == AGE_MULTIPLIERS[category][_get_age_group(req.age)]
    IN  bmi * smoking * exercise * age

\* min(1.0, risk * m) in 1/RUnit, for risk in 1/CUnit and m > 0 in 1/MUnit
StatedCap(risk, m) == IF risk > RUnit \div m THEN RUnit ELSE risk * m

\* C12: for every disease of the input map the lifestyle stage returns
\* min(1.0, risk x M), M being the product of the disease's BMI, smoking,
\* exercise and age-group factors; 0.8 for a cardiovascular disease of an
\* elderly sedentary smoker yields exactly 1.0
C12_LifestyleIsCappedProduct ==
    pc = "convert" =>
        /\ Len(final_risks) = Len(risks_with_comorbidity)
        /\ \A i \in Indices(risks_with_comorbidity) :
               /\ final_risks[i].code = risks_with_comorbidity[i].code
               /\ final_risks[i].val =
                      StatedCap(risks_with_comorbidity[i].val,
                                StatedMultiplier(risks_with_comorbidity[i].code, request))
               /\ ( /\ risks_with_comorbidity[i].code = I10
                    /\ risks_with_comorbidity[i].val = 32000
                    /\ request.age >= 65 /\ request.smoking
                    /\ request.exercise_level = "sedentary" )
                  => final_risks[i].val = RUnit

\* the stage has run for an elderly sedentary smoker: the cardiovascular
\* disease at 0.8 is capped at 1.0, the disease of category "other" at 0.8
\* carries the age factor alone and stays below 1.0
C12_Witness ==
    /\ pc = "convert"
    /\ request.age >= 65 /\ request.smoking /\ request.exercise_level = "sedentary"
    /\ \E i \in Indices(final_risks) :
           /\ final_risks[i].code = I10
           /\ risks_with_comorbidity[i].val = 32000
           /\ final_risks[i].val = RUnit
    /\ \E i \in Indices(final_risks) :
           /\ final_risks[i].code = N18
           /\ final_risks[i].val = 32000 * 23000

\* the difference between a disease's stored coordinates and the user's
\* position, and the disease's post-adjustment risk
Difference(code) ==
    [x    |-> CoordOrZero(RowOf(code).vector_x) - user_position.x,
     y    |-> CoordOrZero(RowOf(code).vector_y) - user_position.y,
     z    |-> CoordOrZero(RowOf(code).vector_z) - user_position.z,
     risk |-> Get(final_risks, code)]

\* C13 as stated: each component of a pull vector is (disease coordinate -
\* user position coordinate) x risk and the magnitude is the Euclidean norm of
\* that vector, with no rounding; a coincident disease has components and
\* magnitude 0.0
C13_ComponentsAreScaledDifference ==
    \A i \in Indices(pull_vectors) :
        LET pv == pull_vectors[i]
            d  == Difference(pv.disease_id)
        IN  /\ pv.vector_x = MulRound(d.x, d.risk, RUnit)
            /\ pv.vector_y = MulRound(d.y, d.risk, RUnit)
            /\ pv.vector_z = MulRound(d.z, d.risk, RUnit)
            /\ \A c \in {d.x, d.y, d.z} : MulDivMod(Abs(c), d.risk, RUnit)[2] = 0
            /\ BigCmp(FourSquareTimes(d.risk, d.x * d.x + d.y * d.y + d.z * d.z),
                      SquareTimesSquare(2 * pv.magnitude, RUnit)) = 0
            /\ (d.x = 0 /\ d.y = 0 /\ d.z = 0) =>
                   /\ pv.vector_x = 0 /\ pv.vector_y = 0 /\ pv.vector_z = 0
                   /\ pv.magnitude = 0

\* C13 amended: each reported component is (disease coordinate - user
\* position coordinate) x risk rounded to 4 decimals, and the reported
\* magnitude is the Euclidean norm of the unrounded scaled vector rounded to
\* 4 decimals (it lies within half of 0.0001 of the norm); a disease
\* coincident with the user's position has components and magnitude 0.0
C13_ComponentsAreRoundedScaledDifference ==
    \A i \in Indices(pull_vectors) :
        LET pv == pull_vectors[i]
            d  == Difference(pv.disease_id)
        IN  /\ pv.vector_x = MulRound(d.x, d.risk, RUnit)
            /\ pv.vector_y = MulRound(d.y, d.risk, RUnit)
            /\ pv.vector_z = MulRound(d.z, d.risk, RUnit)
            /\ IsRoundedScaledSqrt(pv.magnitude, d.risk,
                                   d.x * d.x + d.y * d.y + d.z * d.z, RUnit)
            /\ (d.x = 0 /\ d.y = 0 /\ d.z = 0) =>
                   /\ pv.vector_x = 0 /\ pv.vector_y = 0 /\ pv.vector_z = 0
                   /\ pv.magnitude = 0

\* a result with a pull vector toward a disease at the user's own position,
\* of magnitude 0, and one toward a distant disease whose scaled difference
\* is not a whole number of 0.0001
C13_Witness ==
    /\ pc = "done"
    /\ \E i \in Indices(pull_vectors) :
           LET d == Difference(pull_vectors[i].disease_id)
           IN  /\ d.x = 0 /\ d.y = 0 /\ d.z = 0
               /\ pull_vectors[i].magnitude = 0
    /\ \E i \in Indices(pull_vectors) :
           LET d == Difference(pull_vectors[i].disease_id)
           IN  /\ MulDivMod(Abs(d.y), d.risk, RUnit)[2] # 0
               /\ pull_vectors[i].magnitude > 0

\* C14: when the catalog scan succeeds, the base-risk map has exactly one
\* entry per catalog disease, in catalog order, holding the prevalence for the
\* user's sex when present and non-zero, otherwise prevalence_total when
\* present and non-zero, otherwise 0.0
C14_BaseRiskIsSexPrevalenceOrTotal ==
    (pc \notin {"get_conditions", "base_risks", "raised"} /\ ~Failed("catalog")) =>
        /\ Len(base_risks) = Len(store.diseases)
        /\ \A i \in Indices(store.diseases) :
               LET d     == store.diseases[i]
                   sex   == IF request.gender = "male" THEN d.prevalence_male
                                                      ELSE d.prevalence_female
                   total == d.prevalence_total
               IN  /\ base_risks[i].code = d.icd_code
                   /\ base_risks[i].val =
                          IF sex # None /\ sex[1] # 0 THEN sex[1]
                          ELSE IF total # None /\ total[1] # 0 THEN total[1]
                          ELSE 0

\* a woman's base risks over a catalog with a disease whose prevalence for
\* women is zero and falls back to the total, and one with neither (0.0)
C14_Witness ==
    /\ pc = "comorbidity"
    /\ ~Failed("catalog")
    /\ request.gender = "female"
    /\ \E i \in Indices(store.diseases) :
           /\ store.diseases[i].prevalence_female = Some(0)
           /\ base_risks[i].val = store.diseases[i].prevalence_total[1]
           /\ base_risks[i].val > 0
    /\ \E i \in Indices(store.diseases) :
           /\ store.diseases[i].prevalence_female = None
           /\ base_risks[i].val = 0

\* C15: when the catalog fetch of the base-risk stage fails, the base-risk map
\* is empty and calculate_risks does not raise; the response it returns has no
\* risk scores and no pull vectors, while its position and its count of
\* analysed conditions are those of the resolved (non-empty) conditions
C15_CatalogFailureDegradesToEmptyResult ==
    Failed("catalog") =>
        /\ base_risks = <<>>
        /\ pc # "raised" /\ error = "none"
        /\ conditions # <<>>
        /\ pc = "done" =>
               /\ Response.risk_scores = <<>>
               /\ Response.pull_vectors = <<>>
               /\ Response.user_position = CalculatePosition(conditions)
               /\ Response.total_conditions_analyzed = Len(conditions)
               /\ Response.total_conditions_analyzed = Cardinality(KnownExisting)

\* a response after a failed catalog fetch, for two resolved conditions that
\* place the user away from the origin
C15_Witness ==
    /\ pc = "done"
    /\ Failed("catalog")
    /\ Response.total_conditions_analyzed = 2
    /\ Response.user_position # NoPosition
    /\ Response.risk_scores = <<>>

\* <<sum of coordinate x weight, sum of weights>> over the conditions on an
\* axis, as stated: a coordinate is clamped to [-1, 1] and counts 0.0 when
\* missing, a weight is prevalence_total, or 1.0 when that is absent or zero
StatedSums(conds, axis) ==
    LET Coordinate(c) == IF c[axis] = None THEN 0
                         ELSE IF c[axis][1] > StoreCoordUnit THEN StoreCoordUnit
                         ELSE IF c[axis][1] < 0 - StoreCoordUnit THEN 0 - StoreCoordUnit
                         ELSE c[axis][1]
        Weight(c) == IF c.prevalence_total = None \/ c.prevalence_total[1] = 0
                     THEN CUnit ELSE c.prevalence_total[1]
        RECURSIVE Sums(_)
        Sums(i) == IF i > Len(conds) THEN <<0, 0>>
                   ELSE <<Coordinate(conds[i]) * Weight(conds[i]) + Sums(i + 1)[1],
                          Weight(conds[i]) + Sums(i + 1)[2]>>
    IN  Sums(1)

\* the quotient s / w of sums in 1/StoreCoordUnit, clamped to [-1, 1] and then
\* rounded to 4 decimals, in 1/Unit4; w # 0
StatedMean(sums) ==
    IF Abs(sums[1]) >= StoreCoordUnit * Abs(sums[2])
    THEN IF (sums[1] < 0) = (sums[2] < 0) THEN Unit4 ELSE 0 - Unit4
    ELSE RoundScaled(sums[1], Unit4 \div StoreCoordUnit, sums[2])

PositionAxes == [x |-> "vector_x", y |-> "vector_y", z |-> "vector_z"]

C17_StoreCoordinatesClampedBeforeUse ==
    /\ (pc \in {"pull_vectors", "done"} /\ conditions # <<>>) =>
           \A a \in DOMAIN PositionAxes :
               LET sums == StatedSums(conditions, PositionAxes[a])
               IN  sums[2] # 0 => user_position[a] = StatedMean(sums)
    /\ \A i \in Indices(pull_vectors) :
           LET pv   == pull_vectors[i]
               row  == RowOf(pv.disease_id)
               risk == Get(final_risks, pv.disease_id)
           IN  \A a \in DOMAIN PositionAxes :
                   pv[PositionAxes[a]] =
                       MulRound(Clamp(CoordOrZero(row[PositionAxes[a]]), Unit4)
                                    - user_position[a],
                                risk, RUnit)

\* the adjustment a factor string names: 1 BMI, 2 smoking, 3 exercise, 4 age,
\* 0 for any other string
FactorKind(f) ==
    IF f \in {"High BMI (obese) - metabolic impact",
              "Elevated BMI (overweight) - metabolic impact"} THEN 1
    ELSE IF f \in {"Smoking - cardiovascular impact", "Smoking - respiratory impact"} THEN 2
    ELSE IF f \in {"Low exercise level - cardiovascular impact",
                   "Active lifestyle - cardiovascular protective"} THEN 3
    ELSE IF f \in {"Age (" \o ToString(request.age) \o ") - " \o dir \o " " \o cat \o " risk" :
                       dir \in {"increased", "lower"},
                       cat \in {"metabolic", "cardiovascular", "respiratory", "other"}} THEN 4
    ELSE 0

\* C18: every RiskScore has a non-empty contributing_factors list: the factor
\* strings recorded for its disease, at most one of each kind and in the
\* order BMI, smoking, exercise, age, or exactly the baseline label when none
\* was recorded
C18_FactorsRecordedOrBaseline ==
    \A i \in Indices(risk_scores) :
        LET listed   == risk_scores[i].contributing_factors
            recorded == Get(contributing_factors, risk_scores[i].disease_id)
        IN  /\ listed # <<>>
            /\ recorded # <<>> => listed = recorded
            /\ recorded = <<>> => listed = <<"Population prevalence baseline">>
            /\ \A j \in Indices(recorded) :
                   /\ FactorKind(recorded[j]) \in 1..4
                   /\ \A k \in Indices(recorded) :
                          j < k => FactorKind(recorded[j]) < FactorKind(recorded[k])

\* a result with a disease that keeps only the baseline label and one that
\* lists a smoking and an exercise factor in that order
C18_Witness ==
    /\ pc = "done"
    /\ \E i \in Indices(risk_scores) :
           /\ risk_scores[i].contributing_factors = <<"Population prevalence baseline">>
           /\ Get(contributing_factors, risk_scores[i].disease_id) = <<>>
    /\ \E i \in Indices(risk_scores) :
           /\ Len(risk_scores[i].contributing_factors) = 2
           /\ FactorKind(risk_scores[i].contributing_factors[1]) = 2
           /\ FactorKind(risk_scores[i].contributing_factors[2]) = 3

\* C19: the contributing_factors of a RiskScore hold one string for every
\* adjustment that altered the disease's risk, the comorbidity multiplications
\* included: a disease whose risk the comorbidity stage changed lists a
\* string that is neither a lifestyle or age factor nor the baseline label,
\* and a disease that lists only the baseline label was changed by neither
\* stage
C19_OneFactorPerAdjustment ==
    \A i \in Indices(risk_scores) :
        LET code    == risk_scores[i].disease_id
            listed  == risk_scores[i].contributing_factors
            touched == Get(risks_with_comorbidity, code) # Get(base_risks, code)
        IN  /\ touched =>
                   \E j \in Indices(listed) :
                       /\ FactorKind(listed[j]) = 0
                       /\ listed[j] # "Population prevalence baseline"
            /\ listed = <<"Population prevalence baseline">> =>
                   /\ ~touched
                   /\ Factors(code, request) = <<>>

\* C20: the route answers a ValueError of calculate_risks with HTTP 400 whose
\* detail is the error's message, and any other exception with HTTP 500 whose
\* detail is the fixed text "Failed to calculate risk scores"; the message of
\* an exception that is not a ValueError never is the detail of a response
C20_RouteMapsErrorsToStatus ==
    pc = "responded" =>
        /\ error = "none" <=> http_response.status_code = 200
        /\ \A e \in RouteExceptions :
               error = e.type \o ": " \o e.message =>
                   /\ e.type = "ValueError" =>
                          /\ http_response.status_code = 400
                          /\ http_response.detail = e.message
                   /\ e.type # "ValueError" =>
                          /\ http_response.status_code = 500
                          /\ http_response.detail = "Failed to calculate risk scores"
                   /\ http_response.body = None
        /\ \A e \in RouteExceptions :
               (e.type # "ValueError" /\ e.message # "Failed to calculate risk scores")
                   => http_response.detail # e.message

\* the answer to a failed connection to the data store: HTTP 500 with the
\* fixed detail
C20_Witness ==
    /\ pc = "responded"
    /\ error = "ConnectError: connection refused: db.internal:5432"
    /\ http_response.status_code = 500
    /\ http_response.detail = "Failed to calculate risk scores"

\* C21: the comorbidity stage never multiplies the risk of an existing
\* condition: after the stage every existing condition holds its base risk,
\* also when a returned row has an existing condition on both sides
C21_ExistingConditionNeverMultiplied ==
    AfterComorbidity =>
        \A i \in Indices(base_risks) :
            base_risks[i].code \in ExistingSet =>
                risks_with_comorbidity[i].val = base_risks[i].val

\* C22: in a result, pull_vectors has exactly one entry for each disease of
\* the post-adjustment risk map whose risk is strictly above 0.3 and whose
\* coordinates the coordinate fetch returned (every row of the store when the
\* fetch succeeds, none when it fails), and no other entry, whether or not
\* the disease is an existing condition or is listed in risk_scores
C22_PullVectorsAreHighRiskWithCoordinates ==
    pc = "done" =>
        /\ Cardinality({pull_vectors[i].disease_id : i \in Indices(pull_vectors)})
               = Len(pull_vectors)
        /\ {pull_vectors[i].disease_id : i \in Indices(pull_vectors)}
               = {final_risks[k].code :
                     k \in {n \in Indices(final_risks) :
                               /\ final_risks[n].val > PULL_THRESHOLD * (RUnit \div 100)
                               /\ ~Failed("coordinates")
                               /\ \E r \in Indices(store.diseases) :
                                      store.diseases[r].icd_code = final_risks[n].code}}

\* a result with two pull vectors, one toward an existing condition that is
\* not in risk_scores and one toward a disease that is
C22_Witness ==
    /\ pc = "done"
    /\ Len(pull_vectors) >= 2
    /\ \E i \in Indices(pull_vectors) :
           /\ pull_vectors[i].disease_id \in ExistingSet
           /\ pull_vectors[i].disease_id \notin Returned
    /\ \E i \in Indices(pull_vectors) : pull_vectors[i].disease_id \in Returned

\* C23 as stated: the stages follow one another in the order base risk,
\* comorbidity, lifestyle/age adjustment, position and pull vectors, result
\* assembly (the filtered, named, classified and sorted risk list, then the
\* response)
C23_StagesInStatedOrder ==
    [][LET after == [get_conditions |-> {"base_risks", "raised"},
                     base_risks     |-> {"comorbidity"},
                     comorbidity    |-> {"lifestyle"},
                     lifestyle      |-> {"position"},
                     position       |-> {"pull_vectors"},
                     pull_vectors   |-> {"convert"},
                     convert        |-> {"done"}]
       IN  pc \in DOMAIN after /\ pc' \in after[pc]]_vars

\* C23 amended: the stages follow one another in the order condition lookup,
\* base risk, comorbidity, lifestyle/age adjustment, risk list of the result
\* assembly, position, pull vectors, response; each step leaves the queries
\* already issued as they are and adds only its own, so the fetches are
\* issued in stage order and none before the previous stage has ended
C23_StagesInCodeOrder ==
    [][LET after == [get_conditions |-> {"base_risks", "raised"},
                     base_risks     |-> {"comorbidity"},
                     comorbidity    |-> {"lifestyle"},
                     lifestyle      |-> {"convert"},
                     convert        |-> {"position"},
                     position       |-> {"pull_vectors"},
                     pull_vectors   |-> {"done"}]
           own   == [get_conditions |-> {"conditions"},
                     base_risks     |-> {"catalog"},
                     comorbidity    |-> {"identifiers", "relationships"},
                     lifestyle      |-> {},
                     convert        |-> {"names"},
                     position       |-> {},
                     pull_vectors   |-> {"coordinates"}]
       IN  /\ pc \in DOMAIN after /\ pc' \in after[pc]
           /\ Len(queries') >= Len(queries)
           /\ \A i \in 1..Len(queries') :
                  IF i <= Len(queries) THEN queries'[i] = queries[i]
                  ELSE queries'[i].name \in own[pc]]_vars

\* a result reached after the fetches of every stage that has one
C23_Witness ==
    /\ pc = "done"
    /\ [i \in 1..Len(queries) |-> queries[i].name]
           = <<"conditions", "catalog", "identifiers", "relationships", "coordinates">>
    /\ risk_scores # <<>> /\ pull_vectors # <<>>

\* C24: of two concurrent requests, each one that has been answered got the
\* answer that calculate_risks gives when it runs alone on the same store
\* with the same outcomes of its own queries
C24_ConcurrentRequestsIndependent ==
    /\ pc = "responded" => http_response = Alone(store, request, queries)
    /\ (other # NoInvocation /\ other.pc = "responded")
           => other.http_response = Alone(store, other.request, other.queries)

\* a request is answered with a result while the other request, for other
\* conditions, is suspended half-way through its stages
C24_Witness ==
    /\ other # NoInvocation
    /\ pc = "responded" /\ http_response.status_code = 200
    /\ http_response.body[1].risk_scores # <<>>
    /\ other.pc \in {"comorbidity", "lifestyle", "convert"}
    /\ other.request.existing_conditions # request.existing_conditions
    /\ other.conditions # <<>> /\ other.conditions # conditions

\* C25: one invocation issues at most five data-store queries, each kind at
\* most once whatever the number of existing conditions (so one relationship
\* query for all of them), and none of them is a name query of the result
\* assembly
C25_AtMostFiveQueries ==
    /\ Len(queries) <= 5
    /\ \A i \in Indices(queries) :
           /\ queries[i].name \in {"conditions", "catalog", "identifiers",
                                    "relationships", "coordinates"}
           /\ \A j \in Indices(queries) : queries[j].name = queries[i].name => j = i

\* five queries for two known existing conditions, with named risk scores
C25_Witness ==
    /\ pc = "done"
    /\ Len(queries) = 5
    /\ Cardinality(KnownExisting) >= 2
    /\ Len(risk_scores) >= 2

\* C26: the names that _get_disease_names gives _convert_to_risk_scores have
\* an entry for every requested code: the cached value for a cached code,
\* otherwise the name of the store's row when the fetch succeeds and finds a
\* name (which is then cached), otherwise the code; the store is queried
\* exactly when some requested code is not cached, and nothing is raised
C26_NamesFromCacheThenStoreThenCode ==
    [][pc = "convert" =>
        LET requested == Range(FilteredCodes(final_risks, request.existing_conditions))
            named(c)  == \E r \in Indices(store.diseases) :
                             /\ store.diseases[r].icd_code = c
                             /\ store.diseases[r].name_english \notin {None, Some(<<>>)}
        IN  /\ {risk_scores'[i].disease_id : i \in Indices(risk_scores')} = requested
            /\ \A i \in Indices(risk_scores') :
                   LET c == risk_scores'[i].disease_id
                       n == risk_scores'[i].disease_name
                   IN  IF HasKey(names_cache, c)
                       THEN n = Get(names_cache, c)
                       ELSE IF queries' = <<Query("names", TRUE)>> /\ named(c)
                       THEN /\ n = store.diseases[CHOOSE r \in Indices(store.diseases) :
                                        store.diseases[r].icd_code = c].name_english
                            /\ HasKey(names_cache', c) /\ Get(names_cache', c) = n
                       ELSE n = Some(c)
            /\ (queries' = queries) <=> (\A c \in requested : HasKey(names_cache, c))
            /\ Len(queries') <= 1
            /\ pc' = "position" /\ error' = "none"]_vars

\* one call that answered from the cache, from the store and with a code
C26_Witness ==
    /\ pc = "position"
    /\ conditions = <<>> /\ base_risks = <<>>
    /\ queries = <<Query("names", TRUE)>>
    /\ \E i \in Indices(risk_scores) :
           /\ risk_scores[i].disease_id = Z99
           /\ risk_scores[i].disease_name = Some(Z99)
    /\ \E i \in Indices(risk_scores) : risk_scores[i].disease_name = None
    /\ \E i \in Indices(risk_scores) :
           /\ risk_scores[i].disease_name \notin {None, Some(risk_scores[i].disease_id)}
           /\ HasKey(names_cache, risk_scores[i].disease_id)

\* C27: every age gets exactly one group: elderly from 65, middle for 45 to
\* 64, young_adult for 30 to 44, young below 30
C27_AgeBands ==
    pc = "convert" =>
        LET age == request.age
            groups == { g \in {"elderly", "middle", "young_adult", "young"} :
                          \/ g = "elderly" /\ age >= 65
                          \/ g = "middle" /\ 45 <= age /\ age <= 64
                          \/ g = "young_adult" /\ 30 <= age /\ age <= 44
                          \/ g = "young" /\ age < 30 }
        IN  groups = {_get_age_group(age)}

\* the stage has run for an age that is the lower limit of a band, and the
\* band's multiplier for metabolic diseases is on record
C27_Witness ==
    /\ pc = "convert"
    /\ request.age = 65
    /\ HasKey(contributing_factors, E11)
    /\ \E k \in Indices(Get(contributing_factors, E11)) :
           Get(contributing_factors, E11)[k] = "Age (65) - increased metabolic risk"

C29_OneInstancePerName ==
    /\ \A n \in CacheNames :
           Cardinality({i \in Indices(heap) : heap[i].name = n}) <= 1
    /\ \A t \in DOMAIN callers, u \in DOMAIN callers :
           (callers[t].pc = "has" /\ callers[u].pc = "has") =>
               /\ callers[t].cache = _instances[callers[t].name]
               /\ heap[callers[t].cache].name = callers[t].name
               /\ (callers[t].name = callers[u].name) <=> (callers[t].cache = callers[u].cache)
               /\ (callers[t].stored # None /\ callers[t].name = callers[u].name) =>
                      \E k \in Indices(heap[callers[u].cache]._cache) :
                          /\ heap[callers[u].cache]._cache[k].key = callers[t].stored[1]
                          /\ heap[callers[u].cache]._cache[k].data = t

\* two threads asked for a name that did not exist and a third for another
\* name; an entry stored by one of the two is held by the other's reference
C29_Witness ==
    /\ \A t \in DOMAIN callers : callers[t].pc = "has"
    /\ callers[1].name = callers[2].name /\ callers[3].name # callers[1].name
    /\ callers[1].stored # None /\ callers[2].stored = None
    /\ Len(heap[callers[2].cache]._cache) = 1
    /\ Len(heap) = 2

\* C30 as stated: with caching enabled, a call whose key was stored by a
\* completed call, less than the time to live ago and without an invalidation
\* since, returns what was stored (or the 304 response that stands for it)
\* and does not invoke the wrapped function;
\* with caching disabled every call invokes the wrapped function and returns
\* what it returned
C30_LaterCallsServedFromCache ==
    [][\A c \in DOMAIN callers :
          /\ (callers[c].pc = "request" /\ callers'[c].pc # "request"
                  /\ "cache_enabled" \in DOMAIN settings) =>
                 LET stored == last_set[callers[c].key]
                 IN  /\ (/\ settings.cache_enabled
                          /\ stored # None
                          /\ stored[1].valid
                          /\ clock < stored[1].at + settings.cache_diseases_ttl)
                            => /\ callers'[c].pc = "returned"
                               /\ callers'[c].result \in
                                      {Some(stored[1].data),
                                       Some([status_code |-> 304, etag |-> stored[1].data])}
                               /\ ~callers'[c].invoked
                     /\ ~settings.cache_enabled
                            => callers'[c].pc = "awaiting" /\ callers'[c].invoked
          /\ (callers[c].pc = "awaiting" /\ callers'[c].pc = "returned"
                  /\ ~settings.cache_enabled) =>
                 /\ callers'[c].result = Some([key |-> callers[c].key, version |-> clock])
                 /\ heap' = heap
      ]_vars

\* C30 amended: with caching enabled, a call whose key has a live entry in
\* the cache does not invoke the wrapped function and returns the entry's
\* data, or a 304 response when its If-None-Match is the entry's ETag; the
\* entry is there when the key was stored less than the time to live ago,
\* not invalidated since, and no more keys were ever stored than the cache
\* can hold.  With caching disabled every call invokes the wrapped function
\* and returns what it returned, and when the settings have no cache option
\* the call raises before the wrapped function is invoked
C30_ServedWhileEntryIsHeld ==
    [][\A c \in DOMAIN callers :
          /\ (callers[c].pc = "request" /\ callers'[c].pc # "request") =>
                 IF "cache_enabled" \notin DOMAIN settings
                 THEN callers'[c].pc = "raised" /\ ~callers'[c].invoked
                 ELSE IF ~settings.cache_enabled
                 THEN callers'[c].pc = "awaiting" /\ callers'[c].invoked /\ heap' = heap
                 ELSE LET key == callers[c].key
                          stored == last_set[key]
                          held == IF _instances["diseases_list"] = 0 THEN <<>>
                                  ELSE SelectSeq(heap[_instances["diseases_list"]]._cache,
                                                 LAMBDA e : e.key = key /\ clock < e.expires)
                          served(data) ==
                              /\ callers'[c].pc = "returned"
                              /\ ~callers'[c].invoked
                              /\ callers'[c].result =
                                     IF callers[c].if_none_match = Some(data)
                                     THEN Some([status_code |-> 304, etag |-> data])
                                     ELSE Some(data)
                      IN  /\ IF held # <<>> THEN served(held[1].data)
                             ELSE callers'[c].pc = "awaiting" /\ callers'[c].invoked
                          /\ (/\ stored # None
                               /\ stored[1].valid
                               /\ clock < stored[1].at + settings.cache_diseases_ttl
                               /\ Cardinality({k \in DOMAIN last_set : last_set[k] # None})
                                      <= Min(1000, settings.cache_max_size))
                                 => served(stored[1].data)
          /\ (callers[c].pc = "awaiting" /\ callers'[c].pc = "returned"
                  /\ ~settings.cache_enabled) =>
                 /\ callers'[c].result = Some([key |-> callers[c].key, version |-> clock])
                 /\ heap' = heap
      ]_vars

\* a call was answered from the cache with data of an earlier second, after
\* the call that stored it; a third call got 304 for its If-None-Match
C30_Witness ==
    /\ callers # <<>> /\ "cache_enabled" \in DOMAIN settings /\ settings.cache_enabled
    /\ \A c \in DOMAIN callers : callers[c].pc = "returned"
    /\ callers[1].invoked /\ callers[1].result = Some([key |-> callers[1].key, version |-> 0])
    /\ ~callers[2].invoked /\ callers[2].result = callers[1].result
    /\ ~callers[3].invoked /\ callers[3].result # callers[1].result
    /\ clock = 1

====
